---- MODULE Spec2Model ----
(***************************************************************************)
(* Tight Margins carousel builder (src/src/App.jsx, 14-template variant).  *)
(* The module models the editor state of App (slides, selectedIdx,         *)
(* previewMode, exporting), the font readiness gate ensureFontsLoaded,     *)
(* the SlideCanvas effect, handleExport / exportPDF and the text wrapping  *)
(* primitive wrapText.                                                     *)
(*                                                                         *)
(* Indices are 0-based as in the source; a JavaScript array a is the       *)
(* sequence s with a[i] = s[i + 1].                                        *)
(***************************************************************************)
EXTENDS Integers, Sequences, FiniteSets, TLC

(***************************************************************************)
(* Bounds of the exploration.                                              *)
(***************************************************************************)
\* number of events explored that edit the carousel (add, remove, move,
\* template change, field edit, New) or start an export
MaxEvents == 2
\* number of handler calls explored in SpecBatch
MaxBatch == 3

(***************************************************************************)
(* Program constants.                                                      *)
(***************************************************************************)
MinSlides == 6
MaxSlides == 12

(***************************************************************************)
(* TEMPLATES: template id -> ordered field keys.                           *)
(***************************************************************************)
TemplateIds ==
  <<"cover", "single", "comparison", "framework", "punchline", "data", "cta",
    "numbered_list", "quote", "section_divider", "two_up", "three_up",
    "checklist", "blank">>

TemplateFields(t) ==
  CASE t = "cover" -> <<"title", "subtitle">>
    [] t = "single" -> <<"headline", "body", "emphasis">>
    [] t = "comparison" ->
         <<"left_header", "left_body", "right_header", "right_body", "vs_label">>
    [] t = "framework" -> <<"title", "diagram_type", "labels", "caption">>
    [] t = "punchline" -> <<"text", "emphasis">>
    [] t = "data" -> <<"data_point", "context", "source">>
    [] t = "cta" -> <<"cta_text", "url", "handle">>
    [] t = "numbered_list" ->
         <<"headline", "item1_title", "item1_body", "item2_title", "item2_body",
           "item3_title", "item3_body", "item4_title", "item4_body",
           "item5_title", "item5_body">>
    [] t = "quote" -> <<"quote_text", "attribution", "role">>
    [] t = "section_divider" -> <<"part_label", "section_title">>
    [] t = "two_up" ->
         <<"headline", "item1_title", "item1_body", "item2_title", "item2_body">>
    [] t = "three_up" ->
         <<"headline", "item1_title", "item1_body", "item2_title", "item2_body",
           "item3_title", "item3_body">>
    [] t = "checklist" ->
         <<"headline", "do1", "do2", "do3", "do4",
           "dont1", "dont2", "dont3", "dont4">>
    [] t = "blank" -> <<"header", "callout">>
    [] OTHER -> <<>>

Range(s) == {s[i] : i \in 1..Len(s)}

Registered == Range(TemplateIds)

\* the keys of `renderers`
RendererIds ==
  {"cover", "single", "comparison", "framework", "punchline", "data", "cta",
   "numbered_list", "quote", "section_divider", "two_up", "three_up",
   "checklist", "blank"}

(***************************************************************************)
(* SEQUENCES: the five blueprints.  A skeleton carries `locked` only where *)
(* the source writes it.                                                   *)
(***************************************************************************)
Sk(t, n) == [template |-> t, note |-> n]
SkL(t, n) == [template |-> t, locked |-> TRUE, note |-> n]

SequenceKeys == {"argument", "hottake", "casestudy", "listicle", "playbook"}

SEQUENCES(k) ==
  CASE k = "argument" ->
       <<SkL("cover", "Hook - provocative title"),
         Sk("single", "Setup - establish the context"),
         Sk("single", "Complication - introduce the problem"),
         Sk("framework", "Model - present the framework"),
         Sk("numbered_list", "Breakdown - key components"),
         Sk("comparison", "Contrast - the old vs new way"),
         Sk("quote", "Validate - expert backing"),
         Sk("punchline", "Payoff - the key insight"),
         Sk("data", "Proof - validating data"),
         SkL("cta", "Exit - subscribe")>>
    [] k = "hottake" ->
       <<SkL("cover", "Hook - bold claim"),
         Sk("data", "Shock - the credible number"),
         Sk("single", "Context - why it matters"),
         Sk("checklist", "Reality check - do vs don't"),
         Sk("punchline", "Resolution - the real insight"),
         Sk("quote", "Close - a voice that agrees"),
         SkL("cta", "Exit - subscribe")>>
    [] k = "casestudy" ->
       <<SkL("cover", "Hook - the decision"),
         Sk("single", "Situation - what was at stake"),
         Sk("data", "Scale - tangible stakes"),
         Sk("section_divider", "Pivot - entering analysis"),
         Sk("two_up", "Options - two choices compared"),
         Sk("comparison", "Tradeoffs - side by side"),
         Sk("single", "Decision - what was chosen"),
         Sk("punchline", "Outcome - what happened"),
         Sk("quote", "Reflection - the lesson"),
         SkL("cta", "Exit - subscribe")>>
    [] k = "listicle" ->
       <<SkL("cover", "Hook - the list promise"),
         Sk("single", "Setup - why this list matters"),
         Sk("numbered_list", "List part 1 - first items"),
         Sk("numbered_list", "List part 2 - more items"),
         Sk("three_up", "Summary - three takeaways"),
         Sk("data", "Anchor - a proof point"),
         Sk("punchline", "Close - the one-liner"),
         SkL("cta", "Exit - subscribe")>>
    [] k = "playbook" ->
       <<SkL("cover", "Hook - the playbook title"),
         Sk("single", "Overview - what this covers"),
         Sk("section_divider", "Part 1 - first section"),
         Sk("numbered_list", "Steps - the process"),
         Sk("two_up", "Key contrast - a critical choice"),
         Sk("section_divider", "Part 2 - second section"),
         Sk("checklist", "Standards - do vs don't"),
         Sk("three_up", "Principles - three pillars"),
         Sk("quote", "Authority - expert voice"),
         Sk("data", "Results - proof it works"),
         Sk("punchline", "Payoff - the closing insight"),
         SkL("cta", "Exit - subscribe")>>

(***************************************************************************)
(* JavaScript helpers.                                                     *)
(***************************************************************************)
\* a reading of the lock flag that takes every slide for locked
IsLockedAlways(s) == TRUE

\* truthiness of s.locked: an absent property reads undefined
IsLocked(s) == IF "locked" \in DOMAIN s THEN s.locked ELSE FALSE

\* the empty object {}
EmptyData == <<>>

\* { ...data, [key]: value }
SpreadSet(d, key, value) == [k \in DOMAIN d \cup {key} |-> IF k = key THEN value ELSE d[k]]

\* Array.prototype.splice: the clamped start position
SpliceStart(s, start) ==
  IF start < 0
    THEN (IF Len(s) + start > 0 THEN Len(s) + start ELSE 0)
    ELSE (IF start < Len(s) THEN start ELSE Len(s))

\* next.splice(start, 0, item)
SpliceInsert(s, start, item) ==
  LET k == SpliceStart(s, start)
  IN SubSeq(s, 1, k) \o <<item>> \o SubSeq(s, k + 1, Len(s))

\* next.splice(start, 1)
SpliceRemove(s, start) ==
  LET k == SpliceStart(s, start)
      dc == IF Len(s) - k < 1 THEN Len(s) - k ELSE 1
  IN SubSeq(s, 1, k) \o SubSeq(s, k + dc + 1, Len(s))

\* an assignment that copies one slide over the other
SwapAtOverwrite(s, i, j) == [s EXCEPT ![j + 1] = s[i + 1]]

\* [next[i], next[j]] = [next[j], next[i]] for indices inside the array
SwapAt(s, i, j) == [s EXCEPT ![i + 1] = s[j + 1], ![j + 1] = s[i + 1]]

\* an optional number: <<>> is null, <<n>> is the number n
Null == <<>>
Some(n) == <<n>>

\* JavaScript truthiness of an optional number
Truthy(sn) == sn # Null /\ sn[1] # 0

DigitStr == <<"0", "1", "2", "3", "4", "5", "6", "7", "8", "9">>

RECURSIVE StringOf(_)
\* String(n) for n >= 0
StringOf(n) ==
  IF n < 10 THEN DigitStr[n + 1] ELSE StringOf(n \div 10) \o DigitStr[(n % 10) + 1]

\* String(n).padStart(2, "0")
PadStart2(n) == IF n < 10 THEN "0" \o StringOf(n) ELSE StringOf(n)

(***************************************************************************)
(* wrapText.  Strings are sequences of characters.  ctx.measureText is the *)
(* sum of the characters' advance widths, which makes it monotone: adding  *)
(* characters never makes a string narrower.  The advance table is part of *)
(* the call's input.                                                       *)
(***************************************************************************)
MaxTextLen == 6
MaxWidth == 5

Chars == {"a", "M", " ", "\n"}
WhiteSpace == {" ", "\n"}

TextsUpTo(n) == UNION {[1..k -> Chars] : k \in 0..n}

Advances == {[c \in Chars |-> CASE c = "a" -> 1 [] c = "M" -> m [] OTHER -> sp] :
               m \in {2, 3}, sp \in {0, 1}}

RECURSIVE Measure(_, _)
\* ctx.measureText(s).width
Measure(s, adv) == IF s = <<>> THEN 0 ELSE adv[Head(s)] + Measure(Tail(s), adv)

RECURSIVE Split(_, _)
\* String.prototype.split with a one-character separator
Split(s, sep) ==
  IF \A i \in 1..Len(s) : s[i] # sep
    THEN <<s>>
    ELSE LET i == CHOOSE k \in 1..Len(s) :
                    s[k] = sep /\ \A j \in 1..(k - 1) : s[j] # sep
         IN <<SubSeq(s, 1, i - 1)>> \o Split(SubSeq(s, i + 1, Len(s)), sep)

RECURSIVE TrimStart(_)
TrimStart(s) ==
  IF s # <<>> /\ Head(s) \in WhiteSpace THEN TrimStart(Tail(s)) ELSE s

RECURSIVE TrimEnd(_)
TrimEnd(s) ==
  IF s # <<>> /\ s[Len(s)] \in WhiteSpace
    THEN TrimEnd(SubSeq(s, 1, Len(s) - 1))
    ELSE s

\* String.prototype.trim
Trim(s) == TrimEnd(TrimStart(s))

\* a test that lets a line run one unit over
OverflowsLate(test, line, maxWidth, adv) ==
  Measure(test, adv) > maxWidth + 1 /\ line # <<>>

\* the test that closes the current line before a word
Overflows(test, line, maxWidth, adv) ==
  Measure(test, adv) > maxWidth /\ line # <<>>

RECURSIVE WrapWords(_, _, _, _, _)
\* the loop over the words of one paragraph, and the push after it
WrapWords(words, line, lines, maxWidth, adv) ==
  IF words = <<>>
    THEN Append(lines, Trim(line))
    ELSE LET word == Head(words)
             test == line \o word \o <<" ">>
         IN IF Overflows(test, line, maxWidth, adv)
              THEN WrapWords(Tail(words), word \o <<" ">>,
                             Append(lines, Trim(line)), maxWidth, adv)
              ELSE WrapWords(Tail(words), test, lines, maxWidth, adv)

RECURSIVE WrapParagraphs(_, _, _, _)
\* the loop over the paragraphs
WrapParagraphs(paragraphs, lines, maxWidth, adv) ==
  IF paragraphs = <<>>
    THEN lines
    ELSE LET paragraph == Head(paragraphs)
         IN IF Trim(paragraph) = <<>>
              THEN WrapParagraphs(Tail(paragraphs), Append(lines, <<>>),
                                  maxWidth, adv)
              ELSE WrapParagraphs(Tail(paragraphs),
                     WrapWords(Split(paragraph, " "), <<>>, lines, maxWidth, adv),
                     maxWidth, adv)

\* a loop that draws the non-empty lines one below the other, giving the
\* empty lines no height
FillLinesPacked(lines, i, c) ==
  LET drawn == SelectSeq(lines, LAMBDA l : l # <<>>)
  IN [k \in 1..Len(drawn) |->
        [text |-> drawn[k], x |-> c.x, y |-> c.y + (k - 1) * c.lineHeight]]

RECURSIVE FillLines(_, _, _)
\* lines.forEach: one fillText per non-empty line, at y + i * lineHeight
FillLines(lines, i, c) ==
  IF i > Len(lines)
    THEN <<>>
    ELSE (IF lines[i] # <<>>
            THEN <<[text |-> lines[i], x |-> c.x,
                    y |-> c.y + (i - 1) * c.lineHeight]>>
            ELSE <<>>)
         \o FillLines(lines, i + 1, c)

RECURSIVE MeasureCalls(_)
\* the number of ctx.measureText calls of the loops: one for every word of
\* every paragraph that is not blank
MeasureCalls(paragraphs) ==
  IF paragraphs = <<>>
    THEN 0
    ELSE (IF Trim(Head(paragraphs)) = <<>>
            THEN 0 ELSE Len(Split(Head(paragraphs), " ")))
         + MeasureCalls(Tail(paragraphs))

\* a test that lets the empty string through
FalsyUndefinedOnly(c) == ~c.given

\* !text: the argument is undefined (not given) or the empty string
Falsy(c) == ~c.given \/ c.text = <<>>

wrapText(c) ==
  IF Falsy(c)
    THEN [lines |-> <<>>, draws |-> <<>>, ret |-> 0, measures |-> 0]
    ELSE LET paragraphs == Split(c.text, "\n")
             lines == WrapParagraphs(paragraphs, <<>>, c.maxWidth, c.advance)
         IN [lines |-> lines, draws |-> FillLines(lines, 1, c),
             ret |-> Len(lines), measures |-> MeasureCalls(paragraphs)]

\* the calls explored: a text given, or the text argument left undefined
WrapCalls ==
  [given : {TRUE}, text : TextsUpTo(MaxTextLen), x : {64}, y : {400},
   lineHeight : {80}, maxWidth : 1..MaxWidth, advance : Advances]
    \cup [given : {FALSE}, text : {<<>>}, x : {64}, y : {400},
          lineHeight : {80}, maxWidth : 1..MaxWidth, advance : Advances]

NoWrapCall == [given |-> FALSE, text |-> <<>>, x |-> 0, y |-> 0, lineHeight |-> 0,
               maxWidth |-> 0, advance |-> [c \in Chars |-> 0]]
NoWrapResult == [lines |-> <<>>, draws |-> <<>>, ret |-> -1, measures |-> 0]

(***************************************************************************)
(* drawTextWithEmphasis.  A call carries, besides the arguments of         *)
(* wrapText, the emphasis phrase and the advance table of the bold font,   *)
(* in which an emphasised word is drawn and measured.                      *)
(***************************************************************************)
MaxEmphWords == 3

\* String.prototype.toLowerCase
ToLower(ch) == IF ch = "A" THEN "a" ELSE ch
ToLowerCase(s) == [i \in 1..Len(s) |-> ToLower(s[i])]

\* String.prototype.includes
Includes(s, sub) ==
  \E i \in 0..(Len(s) - Len(sub)) : SubSeq(s, i + 1, i + Len(sub)) = sub

\* the characters of the class [.,!?;:'"]
Punctuation == {".", ",", "!", "?", ";", ":", "'", "\""}

\* a cleaning that strips punctuation at the two ends of the word only
CleanEnds(w) ==
  LET keep == {k \in 1..Len(w) : w[k] \notin Punctuation}
  IN IF keep = {}
       THEN <<>>
       ELSE SubSeq(w, CHOOSE k \in keep : \A j \in keep : k <= j,
                      CHOOSE k \in keep : \A j \in keep : k >= j)

\* w.toLowerCase().replace(/[.,!?;:'"]/g, "")
Clean(w) == SelectSeq(ToLowerCase(w), LAMBDA ch : ch \notin Punctuation)

\* emphasisWord.toLowerCase().split(" ")
EmphWords(c) == Split(ToLowerCase(c.emphasisWord), " ")

\* emphWords.includes(clean)
IsEmph(w, c) == \E k \in 1..Len(EmphWords(c)) : EmphWords(c)[k] = Clean(w)

\* !emphasisWord || !text.toLowerCase().includes(emphasisWord.toLowerCase())
NoEmphasis(c) ==
  c.emphasisWord = <<>>
    \/ ~Includes(ToLowerCase(c.text), ToLowerCase(c.emphasisWord))

\* a test that closes the line one unit late
EmphOverflowsLate(test, line, maxWidth, adv) ==
  Measure(test, adv) > maxWidth + 1 /\ line # <<>>

\* the line-closing test of the function's own wrapping loop
EmphOverflows(test, line, maxWidth, adv) ==
  Measure(test, adv) > maxWidth /\ line # <<>>

RECURSIVE EmphWrapWords(_, _, _, _, _)
\* the function's own loop over the words of one paragraph
EmphWrapWords(words, line, lines, maxWidth, adv) ==
  IF words = <<>>
    THEN Append(lines, Trim(line))
    ELSE LET word == Head(words)
             test == line \o word \o <<" ">>
         IN IF EmphOverflows(test, line, maxWidth, adv)
              THEN EmphWrapWords(Tail(words), word \o <<" ">>,
                                 Append(lines, Trim(line)), maxWidth, adv)
              ELSE EmphWrapWords(Tail(words), test, lines, maxWidth, adv)

RECURSIVE EmphWrapParagraphs(_, _, _, _)
\* the function's own loop over the paragraphs
EmphWrapParagraphs(paragraphs, lines, maxWidth, adv) ==
  IF paragraphs = <<>>
    THEN lines
    ELSE LET paragraph == Head(paragraphs)
         IN IF Trim(paragraph) = <<>>
              THEN EmphWrapParagraphs(Tail(paragraphs), Append(lines, <<>>),
                                      maxWidth, adv)
              ELSE EmphWrapParagraphs(Tail(paragraphs),
                     EmphWrapWords(Split(paragraph, " "), <<>>, lines,
                                   maxWidth, adv),
                     maxWidth, adv)

RECURSIVE EmphLineDraws(_, _, _, _, _)
\* lineWords.forEach: word wi of the line is drawn at cx; an emphasised
\* word is drawn bold and underlined from cx to cx + ww at ly + 4
EmphLineDraws(lineWords, wi, cx, ly, c) ==
  IF wi > Len(lineWords)
    THEN <<>>
    ELSE LET w == lineWords[wi]
             emph == IsEmph(w, c)
             ww == Measure(w, IF emph THEN c.boldAdvance ELSE c.advance)
             spW == IF wi < Len(lineWords) THEN Measure(<<" ">>, c.advance) ELSE 0
         IN <<[text |-> w, x |-> cx, y |-> ly, emph |-> emph,
               underline |-> IF emph THEN <<cx, cx + ww, ly + 4>> ELSE <<>>]>>
            \o EmphLineDraws(lineWords, wi + 1, cx + ww + spW, ly, c)

RECURSIVE EmphDraws(_, _, _)
\* lines.forEach of the emphasis path
EmphDraws(lines, i, c) ==
  IF i > Len(lines)
    THEN <<>>
    ELSE (IF lines[i] = <<>>
            THEN <<>>
            ELSE EmphLineDraws(Split(lines[i], " "), 1, c.x,
                               c.y + (i - 1) * c.lineHeight, c))
         \o EmphDraws(lines, i + 1, c)

RECURSIVE EmphMeasureCalls(_, _)
\* measureText calls of the drawing loop: the space and then every word of
\* every line that is not empty
EmphMeasureCalls(lines, i) ==
  IF i > Len(lines)
    THEN 0
    ELSE (IF lines[i] = <<>> THEN 0 ELSE 1 + Len(Split(lines[i], " ")))
         + EmphMeasureCalls(lines, i + 1)

drawTextWithEmphasis(c) ==
  IF Falsy(c)
    THEN [lines |-> <<>>, draws |-> <<>>, ret |-> 0, measures |-> 0]
    ELSE IF NoEmphasis(c)
      THEN wrapText(c)
      ELSE LET paragraphs == Split(c.text, "\n")
               lines == EmphWrapParagraphs(paragraphs, <<>>, c.maxWidth, c.advance)
           IN [lines |-> lines, draws |-> EmphDraws(lines, 1, c),
               ret |-> Len(lines),
               measures |-> MeasureCalls(paragraphs) + EmphMeasureCalls(lines, 1)]

\* the words the explored texts are made of
WordPool ==
  {<<>>, <<"a">>, <<"A", ".">>, <<"a", "a">>, <<"a", ".", "a">>, <<"\"", "a">>}

RECURSIVE TextsOfWords(_)
\* texts of n words, each followed by a space or a line break but the last
TextsOfWords(n) ==
  IF n = 1
    THEN WordPool
    ELSE {w \o sep \o t : w \in WordPool, sep \in {<<" ">>, <<"\n">>},
                          t \in TextsOfWords(n - 1)}

EmphPhrases ==
  {<<>>, <<"a">>, <<"A">>, <<"a", "a">>, <<"a", ".">>, <<"a", " ", "a", "a">>,
   <<"a", "a", " ", "a">>}

EmphChars == {"a", "A", ".", "\"", " ", "\n"}

EmphAdvances == {[ch \in EmphChars |-> IF ch = "A" THEN 2 ELSE 1]}
BoldAdvances == {[ch \in EmphChars |-> IF ch = "A" THEN 3 ELSE 2]}

EmphCalls ==
  [given : {TRUE}, text : UNION {TextsOfWords(n) : n \in 1..MaxEmphWords},
   emphasisWord : EmphPhrases, x : {64}, y : {400}, lineHeight : {80},
   maxWidth : {3, 6, 12}, advance : EmphAdvances, boldAdvance : BoldAdvances]


(***************************************************************************)
(* Slide renderers.  A renderer is modelled by the sequence of canvas draw *)
(* calls it issues, each with the coordinates, the fill or stroke colour   *)
(* and the font in effect when it is issued.  Field values are texts made  *)
(* of glyphs; a glyph is a character or, for the literal texts of the      *)
(* source, a whole word.  ctx.measureText(t).width is the sum of the       *)
(* glyphs' widths in half ems at the size of the current font.             *)
(***************************************************************************)
\* const C
Paper == "#F0EDEA"
Ink == "#2A2A2A"
Red == "#C83232"
Dark == "#333333"
Grey == "#D0CCC8"
Callout == "#555555"
Slide == 1080
MarginLine == 144
ContentStart == 176
OuterMargin == 64
ContentEnd == 1016
CoverBandL == 280
CoverBandR == 800
CoverChannelW == 520
RuledInterval == 32
RuledStart == 64

\* a field read data.key: the value, or undefined when the key is absent
Field(data, key) ==
  IF key \in DOMAIN data
    THEN [given |-> TRUE, text |-> data[key]]
    ELSE [given |-> FALSE, text |-> <<>>]

\* a string literal of the source
Lit(text) == [given |-> TRUE, text |-> text]

\* v || fallback
OrElseNoFallback(v, fallback) == v
OrElse(v, fallback) == IF Falsy(v) THEN fallback ELSE v

\* a method call on v (v.split, v.trim, v.toUpperCase): a TypeError when v
\* is undefined
ThrowsOn(v) == ~v.given

\* the glyphs of the explored texts and of the literal texts of the source
RenderGlyphs ==
  {"a", "b", "A", " ", "\n", ",", ".", "TIGHT", "MARGINS", "Your", "Title", "Here",
   "Headline", "punchline", "here.", "List", "quote", "Section", "Two", "things",
   "Three", "pillars", "Do", "this,", "not", "that", "DO", "THIS", "NOT"}

\* half ems per glyph of a narrow and of a wide face
GlyphUnits(g) ==
  CASE g \in {" ", ",", "."} -> 1
    [] g = "\n" -> 0
    [] g \in {"a", "Do", "DO"} -> 2
    [] g \in {"A", "Two", "not", "NOT"} -> 3
    [] g \in {"b", "TIGHT", "Title", "here.", "quote", "Three", "this,"} -> 5
    [] g \in {"MARGINS", "Section", "pillars"} -> 7
    [] g \in {"Headline", "punchline"} -> 8
    [] OTHER -> 4

RenderEnvs == {[scale |-> 1], [scale |-> 3]}

\* the advance table of a font of the given pixel size
AdvanceAt(env, px) ==
  [g \in RenderGlyphs |-> (GlyphUnits(g) * env.scale * px) \div 2]

\* the draw calls
FillRectOp(x, y, w, h, style) ==
  [op |-> "fillRect", x |-> x, y |-> y, w |-> w, h |-> h, style |-> style]
StrokeRectOp(x, y, w, h, style) ==
  [op |-> "strokeRect", x |-> x, y |-> y, w |-> w, h |-> h, style |-> style]
FillTextOp(text, x, y, font, style) ==
  [op |-> "fillText", text |-> text, x |-> x, y |-> y, font |-> font,
   style |-> style]
\* beginPath, moveTo(x, y), lineTo(x2, y2), stroke
LineOp(x, y, x2, y2, style) ==
  [op |-> "line", x |-> x, y |-> y, x2 |-> x2, y2 |-> y2, style |-> style]

\* for (let y = C.ruledStart; y <= C.slide; y += C.ruledInterval)
drawRuledLines ==
  [k \in 1..((Slide - RuledStart) \div RuledInterval + 1) |->
     LineOp(0, RuledStart + (k - 1) * RuledInterval,
            Slide, RuledStart + (k - 1) * RuledInterval, Grey)]

drawMarginLine(x) == <<LineOp(x, 0, x, Slide, Red)>>

\* the arguments of a wrapText or drawTextWithEmphasis call of a renderer
TextCall(v, x, y, maxWidth, lineHeight, env, px) ==
  [given |-> v.given, text |-> v.text, x |-> x, y |-> y, maxWidth |-> maxWidth,
   lineHeight |-> lineHeight, advance |-> AdvanceAt(env, px)]

\* the ctx.fillText calls of a wrapText call, in the font and colour set
\* before it
WrapOps(c, font, style) ==
  LET draws == wrapText(c).draws
  IN [i \in 1..Len(draws) |->
        FillTextOp(draws[i].text, draws[i].x, draws[i].y, font, style)]

CoverTitleFont == "700 72px 'Inter Tight', sans-serif"
CoverSubtitleFont == "500 32px 'Newsreader', Georgia, serif"

CoverTitleCall(data, env) ==
  TextCall(OrElse(Field(data, "title"), Lit(<<"Your", " ", "Title", " ", "Here">>)),
           CoverBandL + 24, 420, CoverChannelW - 48, 80, env, 72)

CoverRuleYOneLine(data, env) == 420 + 80 + 16
CoverRuleY(data, env) == 420 + wrapText(CoverTitleCall(data, env)).ret * 80 + 16

CoverSubtitleCall(data, env) ==
  TextCall(OrElse(Field(data, "subtitle"), Lit(<<>>)),
           CoverBandL + 24, CoverRuleY(data, env) + 44, CoverChannelW - 48, 42,
           env, 32)

\* a cover whose right band is never filled
CoverBandsLeftOnly ==
  <<FillRectOp(0, 0, CoverBandL, Slide, Dark),
    FillRectOp(CoverBandL, 0, CoverChannelW, Slide, Paper)>>
\* the dark band, the paper channel and the dark band
CoverBands ==
  <<FillRectOp(0, 0, CoverBandL, Slide, Dark),
    FillRectOp(CoverBandL, 0, CoverChannelW, Slide, Paper),
    FillRectOp(CoverBandR, 0, Slide - CoverBandR, Slide, Dark)>>

\* renderers.cover
cover(data, slideNum, env) ==
  LET tx == CoverBandL + 24
      ruleY == CoverRuleY(data, env)
  IN [threw |-> FALSE,
      ops |->
        CoverBands
        \o drawMarginLine(CoverBandL)
        \o <<FillRectOp(tx, 56, 32, 3, Red),
             FillTextOp(<<"TIGHT", " ", "MARGINS">>, tx, 84,
                        "700 14px 'JetBrains Mono', monospace", Callout)>>
        \o WrapOps(CoverTitleCall(data, env), CoverTitleFont, Ink)
        \o <<FillRectOp(tx, ruleY, 80, 4, Red)>>
        \o WrapOps(CoverSubtitleCall(data, env), CoverSubtitleFont, Red)
        \o <<FillTextOp(<<"TIGHT", " ", "MARGINS">>, tx, Slide - 48,
                        "400 18px 'JetBrains Mono', monospace", Grey)>>]

\* the draw calls whose coordinates are not whole pixels carry them in
\* hundredths of a pixel
LineOp100(x100, y100, x2, y2, style) ==
  [op |-> "line", x100 |-> x100, y100 |-> y100, x2100 |-> x2, y2100 |-> y2,
   style |-> style]
FillTextOp100(text, x100, y100, font, style) ==
  [op |-> "fillText", text |-> text, x100 |-> x100, y100 |-> y100,
   font |-> font, style |-> style]
\* beginPath, moveTo, lineTo, lineTo, closePath, fill
TriangleOp(x1, y1, x2, y2, x3, y3, style) ==
  [op |-> "triangle", x |-> x1, y |-> y1, x2 |-> x2, y2 |-> y2, x3 |-> x3,
   y3 |-> y3, style |-> style]
\* arc(cx, cy, radius, 0, 2 * PI), stroke: the radius in hundredths
RingOp(cx, cy, radius100, style) ==
  [op |-> "ring", x |-> cx, y |-> cy, r100 |-> radius100, style |-> style]
\* a point of the ring: cx + cos(angle) * radius, cy + sin(angle) * radius,
\* the angle being the fraction num / den of a full turn (2 * PI)
OnRing(cx, cy, radius100, num, den) ==
  [cx |-> cx, cy |-> cy, r100 |-> radius100, num |-> num, den |-> den]
\* arc(nx, ny, nodeR, 0, 2 * PI), fill, stroke
NodeOp(at, nodeR, fill, stroke) ==
  [op |-> "node", at |-> at, r |-> nodeR, fill |-> fill, style |-> stroke]
\* fillText(label, nx, ny + dy)
NodeTextOp(text, at, dy, font, style) ==
  [op |-> "fillText", text |-> text, at |-> at, dy |-> dy, font |-> font,
   style |-> style]

\* if (slideNum) fillText(String(slideNum).padStart(2, "0"), 64, 80)
SlideNumOps(slideNum) ==
  IF Truthy(slideNum)
    THEN <<FillTextOp(<<PadStart2(slideNum[1])>>, 64, 80,
                      "400 20px 'JetBrains Mono', monospace", Grey)>>
    ELSE <<>>

\* the paper background, the ruled lines, the margin line and the index
PageOps(slideNum) ==
  <<FillRectOp(0, 0, Slide, Slide, Paper)>>
  \o drawRuledLines \o drawMarginLine(MarginLine) \o SlideNumOps(slideNum)

RECURSIVE MapTrim(_)
\* .map((s) => s.trim())
MapTrim(parts) ==
  IF parts = <<>> THEN <<>> ELSE <<Trim(Head(parts))>> \o MapTrim(Tail(parts))

\* .filter(Boolean)
FilterBoolean(parts) == SelectSeq(parts, LAMBDA p : p # <<>>)

\* .slice(0, k)
SliceTo(s, k) == SubSeq(s, 1, IF Len(s) < k THEN Len(s) ELSE k)

MaxLabels == 8

\* (data.labels || "").split(",").map((s) => s.trim()).filter(Boolean).slice(0, 8)
FrameworkLabels(data) ==
  SliceTo(FilterBoolean(MapTrim(Split(OrElse(Field(data, "labels"), Lit(<<>>)).text,
                                      ","))),
          MaxLabels)

\* data.diagram_type || "flow"
FrameworkType(data) == OrElse(Field(data, "diagram_type"), Lit(<<"flow">>)).text

LabelFont == "500 24px 'JetBrains Mono', monospace"

ContentW == ContentEnd - ContentStart
AreaTop == 230
\* data.caption ? C.slide - 120 : C.slide - 80
AreaBot(data) == IF ~Falsy(Field(data, "caption")) THEN Slide - 120 ELSE Slide - 80
AreaH(data) == AreaBot(data) - AreaTop
\* cx and cy: C.contentStart + contentW / 2 and areaTop + areaH / 2
DiagramCx == ContentStart + ContentW \div 2
DiagramCy(data) == AreaTop + AreaH(data) \div 2

FlowPad == 28
FlowBoxH == 64
FlowArrowW == 36

\* labels.map((l) => ctx.measureText(l).width + pad * 2), in the label font
\* box widths capped so that four boxes and three arrows fit the content width
BoxWidthsCapped(labels, env) ==
  [i \in 1..Len(labels) |->
     LET w == Measure(labels[i], AdvanceAt(env, 24)) + FlowPad * 2
     IN IF w > 183 THEN 183 ELSE w]

\* const boxWidths = labels.map((l) => ctx.measureText(l).width + pad * 2)
BoxWidths(labels, env) ==
  [i \in 1..Len(labels) |-> Measure(labels[i], AdvanceAt(env, 24)) + FlowPad * 2]

RECURSIVE SumSeq(_)
\* .reduce((a, b) => a + b, 0)
SumSeq(s) == IF s = <<>> THEN 0 ELSE Head(s) + SumSeq(Tail(s))

\* the width of a row of boxes with an arrow between neighbours
RowWidth(widths) == SumSeq(widths) + (Len(widths) - 1) * FlowArrowW

RECURSIVE FlowRowOps(_, _, _, _, _)
\* row.forEach: box i of the row at curX, its label centred in it, and an
\* arrow to the next box; boxY is the top of the boxes
FlowRowOps(row, rw, i, curX, boxY) ==
  IF i > Len(row)
    THEN <<>>
    ELSE LET bw == rw[i]
             ax == curX + bw + 4
             ay == boxY + FlowBoxH \div 2
         IN <<StrokeRectOp(curX, boxY, bw, FlowBoxH, Ink),
              FillTextOp(row[i], curX + bw \div 2, ay + 8, LabelFont, Ink)>>
            \o (IF i < Len(row)
                  THEN <<LineOp(ax, ay, ax + FlowArrowW - 8, ay, Ink),
                         TriangleOp(ax + FlowArrowW - 8, ay,
                                    ax + FlowArrowW - 14, ay - 5,
                                    ax + FlowArrowW - 14, ay + 5, Ink)>>
                  ELSE <<>>)
            \o FlowRowOps(row, rw, i + 1, curX + bw + FlowArrowW, boxY)

\* Math.ceil(n / 2)
CeilHalf(n) == (n + 1) \div 2

\* a test that lets a row a hundred pixels wider than the content pass
FitsSingleRowSlack(total) == total <= ContentW + 100

\* totalSingleRow <= contentW
FitsSingleRowAlways(total) == TRUE
FitsSingleRow(total) == total <= ContentW

\* the flow diagram: one row when it fits the content width, else two rows
FlowOps(labels, data, env) ==
  LET boxWidths == BoxWidths(labels, env)
      totalSingleRow == RowWidth(boxWidths)
      cx == DiagramCx
      cy == DiagramCy(data)
      n == Len(labels)
      half == CeilHalf(n)
      RowOps(ri) ==
        LET row == IF ri = 0 THEN SubSeq(labels, 1, half)
                             ELSE SubSeq(labels, half + 1, n)
            rw == IF ri = 0 THEN SubSeq(boxWidths, 1, half)
                            ELSE SubSeq(boxWidths, half + 1, n)
        IN FlowRowOps(row, rw, 1, cx - RowWidth(rw) \div 2,
                      cy - 50 + ri * (FlowBoxH + 40))
  IN IF FitsSingleRow(totalSingleRow)
       THEN FlowRowOps(labels, boxWidths, 1, cx - totalSingleRow \div 2,
                       cy - FlowBoxH \div 2)
       ELSE RowOps(0) \o RowOps(1)

\* the quadrant diagram, in hundredths of a pixel
QuadrantOps(labels, data) ==
  LET cx == DiagramCx * 100
      cy == DiagramCy(data) * 100
      qW == ContentW * 78
      qH == AreaH(data) * 82
      qx == cx - qW \div 2
      qy == cy - qH \div 2
      positions == <<[x |-> qx + qW \div 4, y |-> qy + (qH * 3) \div 10],
                     [x |-> qx + (qW * 3) \div 4, y |-> qy + (qH * 3) \div 10],
                     [x |-> qx + qW \div 4, y |-> qy + (qH * 7) \div 10],
                     [x |-> qx + (qW * 3) \div 4, y |-> qy + (qH * 7) \div 10]>>
      shown == SliceTo(labels, 4)
  IN <<LineOp100(cx, qy, cx, qy + qH, Ink), LineOp100(qx, cy, qx + qW, cy, Ink)>>
     \o [i \in 1..Len(shown) |->
           FillTextOp100(shown[i], positions[i].x, positions[i].y + 800,
                         LabelFont, Ink)]

\* Math.max(...labels.map((l) => ctx.measureText(l).width))
MaxLabelW(labels, env) ==
  LET ws == {Measure(labels[i], AdvanceAt(env, 24)) : i \in 1..Len(labels)}
  IN CHOOSE w \in ws : \A v \in ws : v <= w

\* Math.max(36, maxLabelW / 2 + 16)
NodeR(labels, env) ==
  LET r == MaxLabelW(labels, env) \div 2 + 16
  IN IF r > 36 THEN r ELSE 36

\* -Math.PI / 2 + (i / n) * Math.PI * 2 as a fraction of a full turn:
\* -1/4 + i/n = (4i - n) / (4n)
NodeAngleFromZero(i, n) == [num |-> 4 * i, den |-> 4 * n]
NodeAngle(i, n) == [num |-> 4 * i - n, den |-> 4 * n]

\* the cycle diagram: a dashed ring and one node per label on it
CycleOps(labels, data, env) ==
  LET n == Len(labels)
      radius100 == (IF ContentW < AreaH(data) THEN ContentW ELSE AreaH(data)) * 32
      nodeR == NodeR(labels, env)
      cx == DiagramCx
      cy == DiagramCy(data)
      NodeOps(i) ==
        LET angle == NodeAngle(i, n)
            at == OnRing(cx, cy, radius100, angle.num, angle.den)
        IN <<NodeOp(at, nodeR, Paper, Ink),
             NodeTextOp(labels[i + 1], at, 8, LabelFont, Ink)>>
      RECURSIVE Nodes(_)
      Nodes(i) == IF i >= n THEN <<>> ELSE NodeOps(i) \o Nodes(i + 1)
  IN <<RingOp(cx, cy, radius100, Grey)>> \o Nodes(0)

RECURSIVE ChildOps(_, _, _, _, _, _, _)
\* children.forEach: the connector from the junction and the child's box
ChildOps(children, widths, i, curX, cx, junctionY, childY) ==
  IF i > Len(children)
    THEN <<>>
    ELSE LET bw == widths[i]
             childCx == curX + bw \div 2
         IN <<LineOp(cx, junctionY, childCx, junctionY, Ink),
              LineOp(childCx, junctionY, childCx, childY, Ink),
              StrokeRectOp(curX, childY, bw, 56, Ink),
              FillTextOp(children[i], childCx, childY + 56 \div 2 + 8,
                         LabelFont, Ink)>>
            \o ChildOps(children, widths, i + 1, curX + bw + 20, cx, junctionY,
                        childY)

\* the hierarchy diagram: the first label is the root, the rest its children
HierarchyOps(labels, data, env) ==
  LET root == labels[1]
      children == Tail(labels)
      rootW == Measure(root, AdvanceAt(env, 24)) + 56
      boxH == 56
      cx == DiagramCx
      rootX == cx - rootW \div 2
      rootY == AreaTop + 20
      childBoxWidths ==
        [i \in 1..Len(children) |-> Measure(children[i], AdvanceAt(env, 24)) + 40]
      totalChildW == SumSeq(childBoxWidths) + (Len(children) - 1) * 20
      junctionY == rootY + boxH + 36
      childY == junctionY + 36
  IN <<StrokeRectOp(rootX, rootY, rootW, boxH, Red),
       FillTextOp(root, cx, rootY + boxH \div 2 + 8, LabelFont, Red)>>
     \o (IF Len(children) > 0
           THEN <<LineOp(cx, rootY + boxH, cx, junctionY, Ink)>>
                \o ChildOps(children, childBoxWidths, 1, cx - totalChildW \div 2,
                            cx, junctionY, childY)
           ELSE <<>>)

\* if (labels.length > 0): the diagram of the chosen type
DiagramOps(data, env) ==
  LET labels == FrameworkLabels(data)
      type == FrameworkType(data)
  IN IF Len(labels) > 0
       THEN CASE type = <<"flow">> -> FlowOps(labels, data, env)
              [] type = <<"quadrant">> -> QuadrantOps(labels, data)
              [] type = <<"cycle">> -> CycleOps(labels, data, env)
              [] type = <<"hierarchy">> -> HierarchyOps(labels, data, env)
              [] OTHER -> <<>>
       ELSE <<>>

\* renderers.framework
framework(data, slideNum, env) ==
  [threw |-> ThrowsOn(OrElse(Field(data, "labels"), Lit(<<>>))),
   ops |->
     PageOps(slideNum)
     \o <<FillTextOp(OrElse(Field(data, "title"), Lit(<<"Framework">>)).text,
                     ContentStart, 172, "700 52px 'Inter Tight', sans-serif", Ink)>>
     \o DiagramOps(data, env)
     \o (IF ~Falsy(Field(data, "caption"))
           THEN <<FillTextOp(Field(data, "caption").text, ContentStart, Slide - 80,
                             "500 24px 'Newsreader', Georgia, serif", Callout)>>
           ELSE <<>>)]


\* the truthiness test of a field: if (data.key)
Has(data, key) == ~Falsy(Field(data, key))

\* the font with its weight replaced by 700, and the width of a glyph in it
BoldAdvanceAt(env, px) ==
  [g \in RenderGlyphs |-> ((GlyphUnits(g) + 1) * env.scale * px) \div 2]

\* the draw calls of a drawTextWithEmphasis call: an emphasised word in the
\* bold font and in ink, underlined in the emphasis colour
EmphOps(c, font, boldFont, style) ==
  LET draws == drawTextWithEmphasis(c).draws
      WordOps(d) ==
        IF "emph" \in DOMAIN d /\ d.emph
          THEN <<FillTextOp(d.text, d.x, d.y, boldFont, Ink),
                 LineOp(d.underline[1], d.underline[3], d.underline[2],
                        d.underline[3], Red)>>
          ELSE <<FillTextOp(d.text, d.x, d.y, font, style)>>
      RECURSIVE All(_)
      All(i) == IF i > Len(draws) THEN <<>> ELSE WordOps(draws[i]) \o All(i + 1)
  IN All(1)

HeadlineFont == "700 68px 'Inter Tight', sans-serif"

\* the headline of a content slide, wrapped from y = 180
HeadlineCall(data, fallback, env) ==
  TextCall(OrElse(Field(data, "headline"), Lit(fallback)),
           ContentStart, 180, ContentEnd - ContentStart, 76, env, 68)

\* renderers.single
single(data, slideNum, env) ==
  LET headline == HeadlineCall(data, <<"Headline">>, env)
      hLines == wrapText(headline).ret
      bodyY == 180 + hLines * 76 + 48
      body == TextCall(OrElse(Field(data, "body"), Lit(<<>>)), ContentStart, bodyY,
                       ContentEnd - ContentStart, 46, env, 34)
                @@ [emphasisWord |-> OrElse(Field(data, "emphasis"), Lit(<<>>)).text,
                    boldAdvance |-> BoldAdvanceAt(env, 34)]
  IN [threw |-> FALSE,
      ops |->
        PageOps(slideNum)
        \o WrapOps(headline, HeadlineFont, Ink)
        \o EmphOps(body, "500 34px 'Newsreader', Georgia, serif",
                   "700 34px 'Newsreader', Georgia, serif", Ink)]

\* renderers.comparison
comparison(data, slideNum, env) ==
  LET colL == ContentStart
      colMid == ContentStart + (ContentEnd - ContentStart) \div 2
      colR == ContentEnd
      colW == (colR - colL - 24) \div 2
      bodyFont == "500 30px 'Newsreader', Georgia, serif"
      headerFont == "600 44px 'Inter Tight', sans-serif"
  IN [threw |-> FALSE,
      ops |->
        PageOps(slideNum)
        \o <<LineOp(colMid, 120, colMid, Slide - 64, Grey)>>
        \o (IF Has(data, "vs_label")
              THEN <<FillTextOp(Field(data, "vs_label").text, colMid, 310,
                                "700 22px 'JetBrains Mono', monospace", Grey)>>
              ELSE <<>>)
        \o <<FillTextOp(OrElse(Field(data, "left_header"), Lit(<<"Left">>)).text,
                        colL, 180, headerFont, Ink)>>
        \o WrapOps(TextCall(OrElse(Field(data, "left_body"), Lit(<<>>)),
                            colL, 236, colW, 42, env, 30), bodyFont, Ink)
        \o <<FillTextOp(OrElse(Field(data, "right_header"), Lit(<<"Right">>)).text,
                        colMid + 12, 180, headerFont, Ink)>>
        \o WrapOps(TextCall(OrElse(Field(data, "right_body"), Lit(<<>>)),
                            colMid + 12, 236, colW, 42, env, 30), bodyFont, Ink)]

RECURSIVE PunchWordOps(_, _, _, _, _, _)
\* lineWords.forEach of the punchline: an emphasised word in red
PunchWordOps(lineWords, wi, cx, ly, emphWords, adv) ==
  IF wi > Len(lineWords)
    THEN <<>>
    ELSE LET w == lineWords[wi]
             isEmph == \E k \in 1..Len(emphWords) : emphWords[k] = Clean(w)
             spaceW == IF wi < Len(lineWords) THEN Measure(<<" ">>, adv) ELSE 0
         IN <<FillTextOp(w, cx, ly, "700 76px 'Inter Tight', sans-serif",
                         IF isEmph THEN Red ELSE Ink)>>
            \o PunchWordOps(lineWords, wi + 1, cx + Measure(w, adv) + spaceW, ly,
                            emphWords, adv)

\* renderers.punchline
punchline(data, slideNum, env) ==
  LET text == OrElse(Field(data, "text"), Lit(<<"Your", " ", "punchline", " ", "here.">>))
      emphasis == OrElse(Field(data, "emphasis"), Lit(<<>>))
      adv == AdvanceAt(env, 76)
      fullW == ContentEnd - ContentStart
      testLines == WrapWords(Split(text.text, " "), <<>>, <<>>, fullW, adv)
      totalH == Len(testLines) * 84
      startY == (Slide - totalH) \div 2 + 76
      emphWords == IF ~Falsy(emphasis)
                     THEN Split(ToLowerCase(emphasis.text), " ")
                     ELSE <<>>
      LineOps(i) ==
        LET ly == startY + (i - 1) * 84
        IN IF Len(emphWords) > 0
             THEN PunchWordOps(Split(testLines[i], " "), 1, ContentStart, ly,
                               emphWords, adv)
             ELSE <<FillTextOp(testLines[i], ContentStart, ly,
                               "700 76px 'Inter Tight', sans-serif", Ink)>>
      RECURSIVE Lines(_)
      Lines(i) == IF i > Len(testLines) THEN <<>> ELSE LineOps(i) \o Lines(i + 1)
  IN [threw |-> ThrowsOn(text) \/ (~Falsy(emphasis) /\ ThrowsOn(emphasis)),
      ops |->
        <<FillRectOp(0, 0, Slide, Slide, Paper)>>
        \o drawRuledLines \o drawMarginLine(MarginLine)
        \o Lines(1)]

\* renderers.data (data is the name of the field-value argument here)
data_renderer(fields, slideNum, env) ==
  [threw |-> FALSE,
   ops |->
     PageOps(slideNum)
     \o <<FillTextOp(OrElse(Field(fields, "data_point"), Lit(<<"0%">>)).text,
                     ContentStart, 480, "700 108px 'JetBrains Mono', monospace",
                     Red)>>
     \o WrapOps(TextCall(OrElse(Field(fields, "context"), Lit(<<>>)), ContentStart,
                         548, ContentEnd - ContentStart, 44, env, 32),
                "500 32px 'Newsreader', Georgia, serif", Ink)
     \o (IF Has(fields, "source")
           THEN <<FillTextOp(Field(fields, "source").text, ContentStart, Slide - 80,
                             "italic 500 20px 'Newsreader', Georgia, serif", Grey)>>
           ELSE <<>>)]

\* renderers.cta
cta(data, slideNum, env) ==
  [threw |-> FALSE,
   ops |->
     <<FillRectOp(0, 0, Slide, Slide, Dark)>>
     \o drawMarginLine(MarginLine)
     \o <<FillTextOp(<<"TIGHT", " ", "MARGINS">>, ContentStart, 440,
                     "900 72px 'Inter Tight', sans-serif", Paper),
          FillRectOp(ContentStart, 468, 80, 4, Red),
          FillTextOp(OrElse(Field(data, "cta_text"),
                            Lit(<<"Subscribe", " ", "for", " ", "more.">>)).text,
                     ContentStart, 540, "600 40px 'Inter Tight', sans-serif", Paper),
          FillTextOp(OrElse(Field(data, "url"), Lit(<<"tightmargins.com">>)).text,
                     ContentStart, 592, "400 26px 'JetBrains Mono', monospace", Red)>>
     \o (IF Has(data, "handle")
           THEN <<FillTextOp(Field(data, "handle").text, ContentStart, 628,
                             "400 22px 'JetBrains Mono', monospace", Grey)>>
           ELSE <<>>)]

\* data[`item${n}_title`] and data[`item${n}_body`]
ItemKey(n, part) == "item" \o StringOf(n) \o "_" \o part

RECURSIVE ListItems(_, _)
\* for (let n = 1; n <= 5; n++) if (t) items.push({title: t, body: ... || ""})
ListItems(data, n) ==
  IF n > 5
    THEN <<>>
    ELSE (IF Has(data, ItemKey(n, "title"))
            THEN <<[title |-> Field(data, ItemKey(n, "title")).text,
                    body |-> OrElse(Field(data, ItemKey(n, "body")), Lit(<<>>)).text]>>
            ELSE <<>>)
         \o ListItems(data, n + 1)

RECURSIVE ListItemOps(_, _, _, _, _)
\* items.forEach: the number, the title, the body and the separator
ListItemOps(items, i, listStart, spacing, env) ==
  IF i >= Len(items)
    THEN <<>>
    ELSE LET item == items[i + 1]
             baseY == listStart + i * spacing
             textX == ContentStart + 72
         IN <<FillTextOp(<<StringOf(i + 1)>>, ContentStart, baseY + 28,
                         "700 36px 'JetBrains Mono', monospace", Red),
              FillTextOp(item.title, textX, baseY + 20,
                         "600 24px 'Inter Tight', sans-serif", Ink)>>
            \o (IF item.body # <<>>
                  THEN WrapOps(TextCall(Lit(item.body), textX, baseY + 48,
                                        ContentEnd - textX, 28, env, 20),
                               "400 20px 'Newsreader', Georgia, serif", Ink)
                  ELSE <<>>)
            \o (IF i < Len(items) - 1
                  THEN <<LineOp(textX, baseY + spacing - 16, ContentStart + 524,
                                baseY + spacing - 16, Grey)>>
                  ELSE <<>>)
            \o ListItemOps(items, i + 1, listStart, spacing, env)

\* a spacing table without the five-item row
ListSpacingByThree(n) == IF n <= 3 THEN 140 ELSE 118

\* const spacing = items.length <= 3 ? 140 : items.length === 4 ? 118 : 100
ListSpacing(n) == IF n <= 3 THEN 140 ELSE IF n = 4 THEN 118 ELSE 100

\* renderers.numbered_list
numbered_list(data, slideNum, env) ==
  LET headline == HeadlineCall(data, <<"Your", " ", "List">>, env)
      hLines == wrapText(headline).ret
      items == ListItems(data, 1)
      below == 180 + hLines * 76 + 34
      listStart == IF below > 290 THEN below ELSE 290
      spacing == ListSpacing(Len(items))
  IN [threw |-> FALSE,
      ops |->
        PageOps(slideNum)
        \o WrapOps(headline, HeadlineFont, Ink)
        \o (IF Len(items) = 0
              THEN <<>>
              ELSE ListItemOps(items, 0, listStart, spacing, env))]

\* renderers.quote
quote(data, slideNum, env) ==
  LET text == TextCall(OrElse(Field(data, "quote_text"),
                              Lit(<<"Your", " ", "quote", " ", "here.">>)),
                       ContentStart, 440, 740, 46, env, 32)
      qLines == wrapText(text).ret
      ruleY == 440 + qLines * 46 + 20
  IN [threw |-> FALSE,
      ops |->
        PageOps(slideNum)
        \o <<FillTextOp(<<"ldquo">>, 164, 400,
                        "600 120px 'Newsreader', Georgia, serif", Red)>>
        \o WrapOps(text, "italic 500 32px 'Newsreader', Georgia, serif", Ink)
        \o <<FillRectOp(ContentStart, ruleY, 48, 2, Red)>>
        \o (IF Has(data, "attribution")
              THEN <<FillTextOp(Field(data, "attribution").text, ContentStart,
                                ruleY + 32, "400 16px 'JetBrains Mono', monospace",
                                Grey)>>
                   \o (IF Has(data, "role")
                         THEN <<FillTextOp(Field(data, "role").text, ContentStart,
                                           ruleY + 54,
                                           "400 13px 'JetBrains Mono', monospace",
                                           Grey)>>
                         ELSE <<>>)
              ELSE <<>>)]

\* String.prototype.toUpperCase
ToUpper(ch) == IF ch = "a" THEN "A" ELSE IF ch = "b" THEN "B" ELSE ch
ToUpperCase(s) == [i \in 1..Len(s) |-> ToUpper(s[i])]

\* renderers.section_divider
section_divider(data, slideNum, env) ==
  LET label == OrElse(Field(data, "part_label"), Lit(<<"PART", " ", "ONE">>))
  IN [threw |-> ThrowsOn(label),
      ops |->
        <<FillRectOp(0, 0, Slide, Slide, Paper)>>
        \o drawRuledLines \o drawMarginLine(MarginLine)
        \o <<FillTextOp(ToUpperCase(label.text), ContentStart, 440,
                        "400 16px 'JetBrains Mono', monospace", Red),
             FillRectOp(ContentStart, 456, 48, 2, Red)>>
        \o WrapOps(TextCall(OrElse(Field(data, "section_title"),
                                   Lit(<<"Section", " ", "Title">>)),
                            ContentStart, 510, ContentEnd - ContentStart, 52, env, 44),
                   "700 44px 'Inter Tight', sans-serif", Ink)]

\* beginPath, arc(x, y, r, 0, 2 * PI), stroke
CircleOp(x, y, r, style) ==
  [op |-> "circle", x |-> x, y |-> y, r |-> r, style |-> style]

\* Math.max(a, b)
Max(a, b) == IF a > b THEN a ELSE b

\* one item of two_up: the decorative number, the title and the body
TwoUpItemOps(data, i, y, env) ==
  LET title == Field(data, ItemKey(i + 1, "title"))
      body == Field(data, ItemKey(i + 1, "body"))
      textX == ContentStart + 80
  IN <<FillTextOp(<<StringOf(i + 1)>>, ContentStart, y + 44,
                  "700 52px 'JetBrains Mono', monospace", Red),
       FillTextOp(OrElse(title, Lit(<<>>)).text, textX, y + 28,
                  "600 26px 'Inter Tight', sans-serif", Ink)>>
     \o (IF ~Falsy(body)
           THEN WrapOps(TextCall(body, textX, y + 60, ContentEnd - textX, 32, env, 22),
                        "400 22px 'Newsreader', Georgia, serif", Ink)
           ELSE <<>>)

\* renderers.two_up
two_up(data, slideNum, env) ==
  LET headline == HeadlineCall(data, <<"Two", " ", "things">>, env)
      hLines == wrapText(headline).ret
      item1Y == Max(180 + hLines * 76 + 12, 268)
      item2Y == item1Y + 272
      dividerY == item1Y + 232
  IN [threw |-> FALSE,
      ops |->
        PageOps(slideNum)
        \o WrapOps(headline, HeadlineFont, Ink)
        \o TwoUpItemOps(data, 0, item1Y, env)
        \o TwoUpItemOps(data, 1, item2Y, env)
        \o <<LineOp(ContentStart + 80, dividerY, 900, dividerY, Grey)>>]

\* one column of three_up: the numbered circle, the title and the body
ThreeUpColOps(data, i, colX, itemsY, env) ==
  LET title == OrElse(Field(data, ItemKey(i + 1, "title")), Lit(<<>>))
      body == OrElse(Field(data, ItemKey(i + 1, "body")), Lit(<<>>))
      circleR == 28
      cx == colX + circleR
      cy == itemsY + circleR
      color == IF i = 0 THEN Red ELSE Ink
      titleY == itemsY + circleR * 2 + 28
  IN <<CircleOp(cx, cy, circleR, color),
       FillTextOp(<<StringOf(i + 1)>>, cx, cy + 8,
                  "700 22px 'JetBrains Mono', monospace", color),
       FillTextOp(title.text, colX, titleY, "600 22px 'Inter Tight', sans-serif",
                  Ink)>>
     \o WrapOps(TextCall(body, colX, titleY + 28, 256, 26, env, 18),
                "400 18px 'Newsreader', Georgia, serif", Ink)

\* renderers.three_up
three_up(data, slideNum, env) ==
  LET headline == HeadlineCall(data, <<"Three", " ", "pillars">>, env)
      hLines == wrapText(headline).ret
      colW == 256
      gutter == 36
      cols == <<ContentStart, ContentStart + colW + gutter,
                ContentStart + (colW + gutter) * 2>>
      itemsY == Max(180 + hLines * 76 + 34, 290)
  IN [threw |-> FALSE,
      ops |->
        PageOps(slideNum)
        \o WrapOps(headline, HeadlineFont, Ink)
        \o <<LineOp(cols[2] - gutter \div 2, itemsY, cols[2] - gutter \div 2,
                    Slide - 64, Grey),
             LineOp(cols[3] - gutter \div 2, itemsY, cols[3] - gutter \div 2,
                    Slide - 64, Grey)>>
        \o ThreeUpColOps(data, 0, cols[1], itemsY, env)
        \o ThreeUpColOps(data, 1, cols[2], itemsY, env)
        \o ThreeUpColOps(data, 2, cols[3], itemsY, env)]

\* [data.k1, data.k2, data.k3, data.k4].filter(Boolean)
CheckItems(data, prefix) ==
  LET all == [n \in 1..4 |-> Field(data, prefix \o StringOf(n))]
      kept == SelectSeq(all, LAMBDA v : ~Falsy(v))
  IN [i \in 1..Len(kept) |-> kept[i].text]

RECURSIVE DoOps(_, _, _)
\* doItems.forEach: a check mark and the item
DoOps(items, i, env) ==
  IF i >= Len(items)
    THEN <<>>
    ELSE LET y == 290 + i * 80
             col1X == ContentStart
         IN <<LineOp(col1X + 4, y + 10, col1X + 9, y + 16, Red),
              LineOp(col1X + 9, y + 16, col1X + 20, y + 3, Red)>>
            \o WrapOps(TextCall(Lit(items[i + 1]), col1X + 32, y + 14, 400 - 36, 28,
                                env, 20),
                       "400 20px 'Newsreader', Georgia, serif", Ink)
            \o DoOps(items, i + 1, env)

RECURSIVE DontOps(_, _, _)
\* dontItems.forEach: a cross and the item
DontOps(items, i, env) ==
  IF i >= Len(items)
    THEN <<>>
    ELSE LET y == 290 + i * 80
             col2X == 612
         IN <<LineOp(col2X + 3, y + 3, col2X + 19, y + 19, Grey),
              LineOp(col2X + 19, y + 3, col2X + 3, y + 19, Grey)>>
            \o WrapOps(TextCall(Lit(items[i + 1]), col2X + 32, y + 14, 400 - 36, 28,
                                env, 20),
                       "400 20px 'Newsreader', Georgia, serif", Grey)
            \o DontOps(items, i + 1, env)

\* renderers.checklist
checklist(data, slideNum, env) ==
  LET col1X == ContentStart
      col2X == 612
      headerY == 256
      headerFont == "700 14px 'JetBrains Mono', monospace"
      doW == Measure(<<"DO", " ", "THIS">>, AdvanceAt(env, 14))
      dontW == Measure(<<"NOT", " ", "THIS">>, AdvanceAt(env, 14))
  IN [threw |-> FALSE,
      ops |->
        PageOps(slideNum)
        \o WrapOps(HeadlineCall(data, <<"Do", " ", "this,", " ", "not", " ", "that">>,
                                env), HeadlineFont, Ink)
        \o <<LineOp(596, 244, 596, Slide - 80, Grey),
             FillTextOp(<<"DO", " ", "THIS">>, col1X, headerY, headerFont, Red),
             LineOp(col1X, headerY + 4, col1X + doW, headerY + 4, Red),
             FillTextOp(<<"NOT", " ", "THIS">>, col2X, headerY, headerFont, Grey),
             LineOp(col2X, headerY + 4, col2X + dontW, headerY + 4, Grey)>>
        \o DoOps(CheckItems(data, "do"), 0, env)
        \o DontOps(CheckItems(data, "dont"), 0, env)]

\* renderers.blank
blank(data, slideNum, env) ==
  [threw |-> FALSE,
   ops |->
     PageOps(slideNum)
     \o (IF Has(data, "header")
           THEN WrapOps(TextCall(Field(data, "header"), ContentStart, 180, 760, 48,
                                 env, 40),
                        "700 40px 'Inter Tight', sans-serif", Ink)
           ELSE <<>>)
     \o (IF Has(data, "callout")
           THEN WrapOps(TextCall(Field(data, "callout"), ContentStart, 980, 500, 26,
                                 env, 18),
                        "italic 400 18px 'Newsreader', Georgia, serif", Grey)
           ELSE <<>>)]

(***************************************************************************)
(* The field values explored for each template.                            *)
(***************************************************************************)
\* a field left out of the record
Absent == <<"(absent)">>

\* the field-value record of a choice of values: the absent fields left out
Present(g) == [k \in {j \in DOMAIN g : g[j] # Absent} |-> g[k]]

\* the values explored for a field: absent, empty, or a short text
Missing == {Absent, <<>>}
ShortTexts == {<<"a">>}

CoverData ==
  {Present(g) :
     g \in [title : Missing \cup {<<"a">>, <<"a", " ", "a">>, <<"a", " ", "a", " ", "a">>,
                                  <<"a", "\n", "\n", "a">>},
            subtitle : Missing \cup {<<"a">>, <<"\n", "a">>, <<"a", " ", "a", " ", "a">>}]}

MaxLabelTokens == 5

LabelTokens == {<<"a">>, <<"b">>}

RECURSIVE LabelLists(_)
\* the comma-separated lists of n labels
LabelLists(n) ==
  IF n = 1
    THEN LabelTokens
    ELSE {t \o <<",">> \o l : t \in LabelTokens, l \in LabelLists(n - 1)}

RECURSIVE Repeat(_, _)
\* n copies of the label t, comma-separated
Repeat(t, n) == IF n = 1 THEN t ELSE t \o <<",">> \o Repeat(t, n - 1)

\* longer lists, among them one that fills the content width exactly and
\* one of more than eight labels; lists with blanks and empty entries
LongLabelLists ==
  {<<"a", ",">> \o Repeat(<<"b">>, 5), Repeat(<<"a">>, 7), Repeat(<<"b">>, 7),
   Repeat(<<"a">>, 8), Repeat(<<"a">>, 9), <<"b", ",">> \o Repeat(<<"a">>, 8)}
OddLabelLists ==
  {<<" ", "a", " ", ",", " ", "b", " ">>, <<"a", ",", ",", "b">>, <<",">>, <<" ">>,
   <<"a", " ", "b", ",", "a">>}

FrameworkData ==
  {Present(g) :
     g \in [title : Missing \cup ShortTexts,
            diagram_type : Missing \cup {<<"flow">>, <<"quadrant">>, <<"cycle">>,
                                         <<"hierarchy">>, <<"other">>},
            labels : Missing \cup UNION {LabelLists(n) : n \in 1..MaxLabelTokens}
                       \cup LongLabelLists \cup OddLabelLists,
            caption : Missing \cup ShortTexts]}

\* texts that wrap, texts with a blank paragraph, texts with punctuation
LongTexts ==
  {<<"a", " ", "b", " ", "a">>, <<"a", "\n", "\n", "b">>, <<"A", ".", " ", "b">>}

SingleData ==
  {Present(g) :
     g \in [headline : Missing \cup ShortTexts \cup LongTexts,
            body : Missing \cup ShortTexts \cup LongTexts,
            emphasis : Missing \cup {<<"a">>, <<"b">>, <<"a", " ", "b">>}]}

PunchlineData ==
  {Present(g) :
     g \in [text : Missing \cup ShortTexts \cup LongTexts,
            emphasis : Missing \cup {<<"a">>, <<"b">>, <<"a", " ", "b">>}]}

\* every title absent, empty or given; the bodies of items 1, 3 and 5 absent
\* or given, those of items 2 and 4 empty or given
NumberedListData ==
  {Present(g) :
     g \in [headline : Missing \cup ShortTexts \cup {<<"a", "\n", "b">>},
            item1_title : Missing \cup ShortTexts, item1_body : {Absent, <<"a">>},
            item2_title : Missing \cup ShortTexts, item2_body : {<<>>, <<"a">>},
            item3_title : Missing \cup ShortTexts, item3_body : {Absent, <<"a">>},
            item4_title : Missing \cup ShortTexts, item4_body : {<<>>, <<"a">>},
            item5_title : Missing \cup ShortTexts, item5_body : {Absent, <<"a">>}]}

\* every field of the template absent, empty or a short text
FieldData(t) ==
  {Present(g) : g \in [Range(TemplateFields(t)) -> Missing \cup ShortTexts]}

DataOfTemplate(t) ==
  CASE t = "cover" -> CoverData
    [] t = "single" -> SingleData
    [] t = "framework" -> FrameworkData
    [] t = "punchline" -> PunchlineData
    [] t = "numbered_list" -> NumberedListData
    [] OTHER -> FieldData(t)

\* the templates with the most fields are explored in the narrow face only
EnvsOfTemplate(t) ==
  IF t \in {"numbered_list", "checklist"} THEN {[scale |-> 1]} ELSE RenderEnvs

RenderCalls ==
  UNION {[template : {t}, data : DataOfTemplate(t), slideNum : {Null, Some(3)},
          env : EnvsOfTemplate(t)] : t \in Registered}

NoRenderCall == [template |-> "", data |-> <<>>, slideNum |-> Null,
                 env |-> [scale |-> 0]]


VARIABLES
  slides,       \* useState(null): <<>> stands for null, else the slide list
  selectedIdx,  \* useState(0)
  previewMode,  \* useState(false)
  exporting,    \* useState(false)
  view,         \* the state closed over by the handlers of the last render
  nEvents,      \* editing and export events so far (exploration bound)
  nBatch,       \* handler calls issued since the last render (SpecBatch)
  fontsLoadedPromise, \* module-level let: 0 is null, else an index of promises
  promises,     \* the promises created by ensureFontsLoaded's async body
  fetchCount,   \* number of fetch(cssUrl) calls issued
  canvases,     \* SlideCanvas instances: mounted, props, painted content
  thens,        \* callbacks registered by ensureFontsLoaded().then(...)
  lastCall,     \* the most recent renderer dispatch made by a SlideCanvas
  timers,       \* pending setTimeout callbacks of handleExport (their closures)
  exports,      \* exportPDF calls suspended at `await ensureFontsLoaded()`
  exportLog,    \* settled exportPDF calls: pages drawn, document saved or not
  alerts,       \* alert(...) calls made by handleExport's catch branch
  nExports,     \* handleExport / exportPDF invocations (exploration bound)
  wIn,          \* arguments of a wrapText or drawTextWithEmphasis call
  wOut,         \* its result: the lines laid out, the fillText calls, the return value
  rIn,          \* a render call: template, field values, slide index, font metrics
  rOut,         \* the results of the renders of that call so far
  moves         \* the moveSlide calls made so far, each with the list it found

appVars == <<slides, selectedIdx, previewMode, exporting, view, nEvents, nBatch>>
fontVars == <<fontsLoadedPromise, promises, fetchCount>>
canvasVars == <<canvases, thens, lastCall>>
exportVars == <<timers, exports, exportLog, alerts, nExports>>
wrapVars == <<wIn, wOut, rIn, rOut, moves>>
vars == <<appVars, fontVars, canvasVars, exportVars, wrapVars>>

NoSlides == <<>>

Snapshot ==
  [slides |-> slides, selectedIdx |-> selectedIdx,
   previewMode |-> previewMode, exporting |-> exporting]

\* currentSlide = slides[selectedIdx] of the rendered snapshot
CurrentSlide == view.slides[view.selectedIdx + 1]

(***************************************************************************)
(* Handlers of App.  Guards read the closure (view); functional updates    *)
(* setSlides(prev => ...) apply to the live state.                         *)
(***************************************************************************)
initFromSequence(seqKey) ==
  /\ slides' = [i \in 1..Len(SEQUENCES(seqKey)) |->
                 LET s == SEQUENCES(seqKey)[i]
                 IN [template |-> s.template, locked |-> IsLocked(s),
                     note |-> s.note, data |-> EmptyData]]
  /\ selectedIdx' = 0
  /\ previewMode' = FALSE

initCustom ==
  /\ slides' = <<[template |-> "cover", locked |-> TRUE,
                  note |-> "Cover (always first)", data |-> EmptyData],
                 [template |-> "single", note |-> "Your content", data |-> EmptyData],
                 [template |-> "cta", locked |-> TRUE,
                  note |-> "CTA (always last)", data |-> EmptyData]>>
  /\ selectedIdx' = 0
  /\ previewMode' = FALSE

\* an update that keeps no other field of the slide's data
updateSlideDataReplace(idx, key, value) ==
  /\ slides' = [slides EXCEPT ![idx + 1] =
                  [@ EXCEPT !.data = SpreadSet(EmptyData, key, value)]]
  /\ UNCHANGED selectedIdx

updateSlideData(idx, key, value) ==
  /\ slides' = [slides EXCEPT ![idx + 1] =
                 [@ EXCEPT !.data = SpreadSet(@, key, value)]]
  /\ UNCHANGED selectedIdx

changeTemplate(idx, newTemplate) ==
  /\ slides' = [slides EXCEPT ![idx + 1] =
                 [@ EXCEPT !.template = newTemplate, !.data = EmptyData]]
  /\ UNCHANGED selectedIdx

NewSlide == [template |-> "single", note |-> "", data |-> EmptyData]

addSlide(afterIdx) ==
  IF Len(view.slides) >= MaxSlides
    THEN UNCHANGED <<slides, selectedIdx>>
    ELSE /\ slides' = SpliceInsert(slides, afterIdx + 1, NewSlide)
         /\ selectedIdx' = afterIdx + 1

\* a removal that leaves the selection where it was
removeSlideKeepSelection(idx) ==
  IF Len(view.slides) <= MinSlides \/ IsLocked(view.slides[idx + 1])
    THEN UNCHANGED <<slides, selectedIdx>>
    ELSE /\ slides' = SpliceRemove(slides, idx)
         /\ UNCHANGED selectedIdx

removeSlide(idx) ==
  IF Len(view.slides) <= MinSlides \/ IsLocked(view.slides[idx + 1])
    THEN UNCHANGED <<slides, selectedIdx>>
    ELSE /\ slides' = SpliceRemove(slides, idx)
         /\ selectedIdx' = IF view.selectedIdx >= idx /\ view.selectedIdx > 0
                             THEN view.selectedIdx - 1
                             ELSE selectedIdx

moveSlide(idx, dir) ==
  LET targetIdx == idx + dir
  IN IF targetIdx <= 0 \/ targetIdx >= Len(view.slides) - 1
          \/ IsLocked(view.slides[idx + 1])
       THEN UNCHANGED <<slides, selectedIdx>>
       ELSE /\ slides' = SwapAt(slides, idx, targetIdx)
            /\ selectedIdx' = targetIdx


(***************************************************************************)
(* ensureFontsLoaded and the body of its async function.  A promise is     *)
(* [pc, state, warned, regs]: pc is the await the body is suspended at,    *)
(* warned the console.warn calls made, regs the number of times the body   *)
(* ran the FontFace registration loop.                                     *)
(***************************************************************************)
NewFontPromise == [pc |-> "fetch", state |-> "pending", warned |-> {}, regs |-> 0]

\* a gate that starts the loading again on every call
ensureFontsLoadedAgain ==
  /\ promises' = Append(promises, NewFontPromise)
  /\ fontsLoadedPromise' = Len(promises) + 1
  /\ fetchCount' = fetchCount + 1

\* if (!fontsLoadedPromise) { fontsLoadedPromise = (async () => {...})() }
\* return fontsLoadedPromise  -- the value returned is fontsLoadedPromise'
ensureFontsLoaded ==
  IF fontsLoadedPromise = 0
    THEN /\ promises' = Append(promises, NewFontPromise)
         /\ fontsLoadedPromise' = Len(promises) + 1
         /\ fetchCount' = fetchCount + 1
    ELSE UNCHANGED <<fontsLoadedPromise, promises, fetchCount>>

\* a body without the try/catch: the failure rejects the promise
CatchFetchRethrow(pr) == [pr EXCEPT !.state = "rejected", !.pc = "done"]

\* catch (e) { console.warn("Font CSS fetch failed, ...") } then falls
\* through to `await document.fonts.ready`
CatchFetch(pr) == [pr EXCEPT !.warned = @ \cup {"css"}, !.pc = "ready"]

\* face.load().then(add).catch(e => console.warn("Font face load failed"))
CatchFace(pr, anyFailed) ==
  [pr EXCEPT !.warned = IF anyFailed THEN @ \cup {"face"} ELSE @, !.pc = "ready"]

(***************************************************************************)
(* Renderers: what a dispatch through the renderers table draws.           *)
(***************************************************************************)
\* the renderers that take slideNum and draw the index label
WithIndexLabel ==
  {"single", "comparison", "framework", "data", "numbered_list", "quote",
   "two_up", "three_up", "checklist", "blank"}

\* if (slideNum) ctx.fillText(String(slideNum).padStart(2, "0"), 64, 80)
IndexLabel(template, slideNum) ==
  IF template \in WithIndexLabel /\ Truthy(slideNum) THEN PadStart2(slideNum[1]) ELSE ""

\* if (renderers[t]) renderers[t](ctx, data, slideNum)
RenderCall(template, data, slideNum) ==
  [outcome |-> IF template \in Registered THEN "painted" ELSE "skipped",
   template |-> template, data |-> data, slideNum |-> slideNum,
   label |-> IF template \in Registered THEN IndexLabel(template, slideNum) ELSE ""]

\* s.data || {}
DataOf(s) == IF "data" \in DOMAIN s THEN s.data ELSE EmptyData

(***************************************************************************)
(* SlideCanvas: the useEffect keyed on [template, data, slideNum].         *)
(***************************************************************************)
MaxPending == 2

CanvasIds == {"main", "thumb"}

NoProps == [template |-> "", data |-> EmptyData, slideNum |-> Null]
Blank == [outcome |-> "none", template |-> "", data |-> EmptyData,
          slideNum |-> Null, label |-> ""]
Unmounted == [mounted |-> FALSE, props |-> NoProps, painted |-> Blank]
NoCall == [canvas |-> "", call |-> Blank, fonts |-> ""]

\* the effect's cleanup: cancelled = true (every earlier effect of the canvas
\* was cancelled by its own cleanup already).  A cancelled callback returns
\* at its first statement, so the props it closed over are dead: they are
\* replaced by NoProps.
CancelEffect(q, c) ==
  [i \in 1..Len(q) |->
     IF q[i].canvas = c THEN [q[i] EXCEPT !.cancelled = TRUE, !.props = NoProps] ELSE q[i]]

\* a callback that does not wait for its promise
ThenReadyAtOnce(e) == TRUE

\* a callback passed to .then runs once its promise has resolved
ThenReady(e) == promises[e.promise].state = "resolved"

RemoveAt(q, i) == SubSeq(q, 1, i - 1) \o SubSeq(q, i + 1, Len(q))

\* a callback without the `if (cancelled) return` line
ThenPaintUncancelled(e, cv) ==
  IF ~cv[e.canvas].mounted
    THEN cv
    ELSE [cv EXCEPT ![e.canvas].painted =
            RenderCall(e.props.template, e.props.data, e.props.slideNum)]

\* the callback of ensureFontsLoaded().then(() => {...}), run on the
\* canvases cv: what the canvases hold afterwards
ThenPaint(e, cv) ==
  IF e.cancelled \/ ~cv[e.canvas].mounted
    THEN cv
    ELSE [cv EXCEPT ![e.canvas].painted =
            RenderCall(e.props.template, e.props.data, e.props.slideNum)]

\* the renderer dispatch the callback makes, if it makes one
ThenCall(e, cv, last) ==
  IF e.cancelled \/ ~cv[e.canvas].mounted
    THEN last
    ELSE [canvas |-> e.canvas,
          call |-> RenderCall(e.props.template, e.props.data, e.props.slideNum),
          fonts |-> promises[e.promise].state]

\* React commits canvas c with props p: when a dependency changed (or the
\* element is new) the previous effect is cleaned up and the effect runs.
\* When the promise returned by ensureFontsLoaded has resolved already, the
\* callback runs in the microtask checkpoint that ends the same task;
\* otherwise it stays registered until the promise resolves.
SlideCanvasCommit(c, p, fresh) ==
  IF canvases[c].mounted /\ ~fresh /\ canvases[c].props = p
    THEN UNCHANGED <<canvases, thens, lastCall, fontVars>>
    ELSE /\ ensureFontsLoaded
         /\ LET e == [promise |-> IF fontsLoadedPromise = 0 THEN Len(promises) + 1
                                  ELSE fontsLoadedPromise,
                      canvas |-> c, props |-> p, cancelled |-> FALSE]
                cv == [canvases EXCEPT ![c] =
                        [mounted |-> TRUE, props |-> p,
                         painted |-> IF fresh \/ ~canvases[c].mounted
                                       THEN Blank ELSE canvases[c].painted]]
            IN IF fontsLoadedPromise # 0 /\ ThenReady(e)
                 THEN /\ thens' = CancelEffect(thens, c)
                      /\ canvases' = ThenPaint(e, cv)
                      /\ lastCall' = ThenCall(e, cv, lastCall)
                 ELSE /\ Len(thens) < MaxPending
                      /\ thens' = Append(CancelEffect(thens, c), e)
                      /\ canvases' = cv
                      /\ UNCHANGED lastCall

SlideCanvasUnmount(c) ==
  /\ canvases' = [canvases EXCEPT ![c] = Unmounted]
  /\ thens' = CancelEffect(thens, c)
  /\ UNCHANGED <<lastCall, fontVars>>

\* a registered callback runs after its promise has resolved
CanvasThen ==
  /\ \E i \in 1..Len(thens) :
       /\ ThenReady(thens[i])
       /\ \A j \in 1..(i - 1) : ~ThenReady(thens[j])
       /\ thens' = RemoveAt(thens, i)
       /\ canvases' = ThenPaint(thens[i], canvases)
       /\ lastCall' = ThenCall(thens[i], canvases, lastCall)
  /\ UNCHANGED <<appVars, fontVars, exportVars, wrapVars>>

(***************************************************************************)
(* exportPDF and handleExport.                                             *)
(***************************************************************************)
MaxExports == 1

\* a suppression list that misses punchline
ShowNumOnPunchline(template) == template \notin {"cover", "cta", "section_divider"}

\* const showNum = !["cover", "cta", "punchline", "section_divider"].includes(s.template)
ShowNum(template) == template \notin {"cover", "cta", "punchline", "section_divider"}

\* the renderer dispatch of loop iteration i (i = source index + 1), which
\* passes showNum ? i + 1 : null in source indices
ExportPage(s, i) ==
  RenderCall(s[i].template, DataOf(s[i]),
             IF ShowNum(s[i].template) THEN Some(i) ELSE Null)

\* where the synchronous part of exportPDF after the await can throw: the
\* canvas and the document writer are external collaborators.  A failure
\* inside the loop is explored at the first and at the last slide.
FailPoints(s) ==
  {<<0, "none">>}
    \cup {<<i, k>> : i \in {1, Len(s)}, k \in {"toDataURL", "addImage"}}
    \cup {<<Len(s), "save">>}

\* the pages drawn by the loop when it stops at fail point f
PagesUpTo(s, f) ==
  [i \in 1..(IF f[2] \in {"none", "save"} THEN Len(s) ELSE f[1]) |-> ExportPage(s, i)]

\* the state of the export canvas's 2D context that exportPDF touches: the
\* current transform (a uniform scale factor), the drawing styles, and the
\* stack of states pushed by ctx.save()
CtxInit == [scale |-> 1, style |-> "default", stack |-> <<>>]

CtxSave(ctx) ==
  [ctx EXCEPT !.stack = Append(@, [scale |-> ctx.scale, style |-> ctx.style])]

CtxScale(ctx, k) == [ctx EXCEPT !.scale = @ * k]

\* a restore that pops the saved state without reinstating it
CtxRestoreDropped(ctx) ==
  IF ctx.stack = <<>> THEN ctx
  ELSE [ctx EXCEPT !.stack = SubSeq(@, 1, Len(@) - 1)]

\* ctx.restore(): the state saved last becomes current; no-op on an empty stack
CtxRestore(ctx) ==
  IF ctx.stack = <<>> THEN ctx
  ELSE LET top == ctx.stack[Len(ctx.stack)]
       IN [scale |-> top.scale, style |-> top.style,
           stack |-> SubSeq(ctx.stack, 1, Len(ctx.stack) - 1)]

\* what a renderer leaves of the context: every ctx.save() inside a renderer
\* is matched by a ctx.restore() with no return in between, so the stack and
\* the transform are as before; fillStyle, font and textAlign stay as last set
CtxAfterRender(ctx, template) ==
  IF template \in Registered THEN [ctx EXCEPT !.style = template] ELSE ctx

\* new jsPDF({...}) holds one empty page; a page is the images placed on it
NewPdf == <<<<>>>>

\* the state exportPDF sets up before its loop
ExportStart == [ctx |-> CtxInit, canvas |-> <<>>, pdf |-> NewPdf, frames |-> <<>>]

\* ctx.clearRect(0, 0, canvasSize, canvasSize), called before ctx.scale: the
\* whole bitmap becomes transparent
ClearRect(canvas) == <<>>

\* one iteration of the loop of exportPDF on slide i (i = source index + 1);
\* the canvas is the paints made on it since it was last cleared
ExportStep(st, s, i, f) ==
  LET pdf1 == IF i > 1 THEN Append(st.pdf, <<>>) ELSE st.pdf
      ctx1 == CtxScale(CtxSave(st.ctx), 2)
      call == ExportPage(s, i)
      canvas0 == ClearRect(st.canvas)
      canvas1 == IF call.outcome = "painted"
                   THEN Append(canvas0, [slide |-> i, call |-> call, scale |-> ctx1.scale])
                   ELSE canvas0
      ctx2 == CtxRestore(CtxAfterRender(ctx1, s[i].template))
      frame == [slide |-> i, start |-> st.ctx, cleared |-> canvas0]
      pdf2 == IF f = <<i, "toDataURL">> \/ f = <<i, "addImage">>
                THEN pdf1
                ELSE [pdf1 EXCEPT ![Len(pdf1)] = Append(@, canvas1)]
  IN [ctx |-> ctx2, canvas |-> canvas1, pdf |-> pdf2,
      frames |-> Append(st.frames, frame)]

RECURSIVE ExportLoop(_, _, _, _)
\* for (let i = 0; i < slides.length; i++) {...}, stopped by a throw at f
ExportLoop(st, s, i, f) ==
  IF i > Len(s) THEN st
  ELSE LET st1 == ExportStep(st, s, i, f)
       IN IF f[1] = i /\ f[2] \in {"toDataURL", "addImage"}
            THEN st1
            ELSE ExportLoop(st1, s, i + 1, f)

\* exportPDF(slides) up to its first await: the call returns a promise
exportPDF(s) ==
  /\ ensureFontsLoaded
  /\ exports' = Append(exports, [slides |-> s, promise |-> fontsLoadedPromise'])

\* exportPDF is an async function: whatever fails inside it rejects the
\* promise it returned and is never thrown to the caller of exportPDF(slides)
ExportPDFThrowsSync == FALSE

\* `await ensureFontsLoaded()` continues once the promise has settled
AwaitSettled(e) == promises[e.promise].state # "pending"

\* the rest of exportPDF after the await; it contains no further await, so
\* it runs to completion.  pdf.save is its last statement.
ExportResume ==
  /\ \E i \in 1..Len(exports) :
       /\ AwaitSettled(exports[i])
       /\ \A j \in 1..(i - 1) : ~AwaitSettled(exports[j])
       /\ exports' = RemoveAt(exports, i)
       /\ LET e == exports[i]
              st == promises[e.promise].state
          IN IF st = "rejected"
               THEN exportLog' = Append(exportLog,
                      [n |-> Len(e.slides), pages |-> <<>>, outcome |-> "rejected",
                       failed |-> "fonts", fonts |-> st, run |-> ExportStart])
               ELSE \E f \in FailPoints(e.slides) :
                      exportLog' = Append(exportLog,
                        [n |-> Len(e.slides), pages |-> PagesUpTo(e.slides, f),
                         outcome |-> IF f[2] = "none" THEN "saved" ELSE "rejected",
                         failed |-> f[2], fonts |-> st,
                         run |-> ExportLoop(ExportStart, e.slides, 1, f)])
  /\ UNCHANGED <<timers, alerts, nExports, appVars, fontVars, canvasVars, wrapVars>>

\* handleExport: setExporting(true); setTimeout(() => {...}, 100)
handleExport ==
  /\ exporting' = TRUE
  /\ timers' = Append(timers, view.slides)
  /\ nExports' = nExports + 1

(***************************************************************************)
(* What App renders from a snapshot.                                       *)
(***************************************************************************)
\* const showSlideNum = ![...].includes(currentSlide.template)
ShowSlideNum(template) == template \notin {"cover", "cta", "punchline", "section_divider"}

\* props of the main <SlideCanvas> (editor and preview pass the same values)
MainProps(v) ==
  LET cur == v.slides[v.selectedIdx + 1]
  IN [template |-> cur.template, data |-> cur.data,
      slideNum |-> IF ShowSlideNum(cur.template) THEN Some(v.selectedIdx + 1) ELSE Null]

\* a button that ignores the slide count
ExportDisabledWhileExporting(v) == v.exporting

\* Export PDF button: disabled={exporting || slides.length < 6 || slides.length > 12}
ExportDisabled(v) ==
  v.exporting \/ Len(v.slides) < MinSlides \/ Len(v.slides) > MaxSlides

\* a select that offers every template
SelectOptionsUnfiltered == Registered

\* the <option>s of the template select
SelectOptions == {t \in Registered : t # "cover" /\ t # "cta"}

\* values typed into a field
FieldValues == {"x"}

\* the options the user tries to pick in the template select, and the fields
\* the user types into (the first two fields of the slide's template)
TemplateChoices == {"cover", "cta", "blank"}
EditKeys(template) == {TemplateFields(template)[1], TemplateFields(template)[2]}

HasSlides == view.slides # NoSlides
EditorMode == HasSlides /\ ~view.previewMode
PreviewMode == HasSlides /\ view.previewMode

\* React re-renders App after the event: the handlers of the next event close
\* over the new state, and the main canvas (a different element in editor
\* and preview mode) receives its props
Commit ==
  /\ view' = Snapshot'
  /\ IF slides' = NoSlides
       THEN SlideCanvasUnmount("main")
       ELSE SlideCanvasCommit("main", MainProps(Snapshot'),
                              previewMode' # view.previewMode)

\* the event loop runs a task (a DOM event, a timer, a network completion)
\* only when no promise reaction is runnable
MicrotaskPending ==
  \/ \E i \in 1..Len(thens) : ThenReady(thens[i])
  \/ \E i \in 1..Len(exports) : AwaitSettled(exports[i])

TaskReady == ~MicrotaskPending

(***************************************************************************)
(* The awaits of the font-loading body, completed by the environment.      *)
(***************************************************************************)
\* fetch and resp.text() succeed: the @font-face blocks are parsed and each
\* FontFace starts loading; the body suspends at `await Promise.all(promises)`
FontFetchOk ==
  /\ TaskReady
  /\ \E p \in 1..Len(promises) :
       /\ promises[p].pc = "fetch"
       /\ promises' = [promises EXCEPT ![p] = [@ EXCEPT !.pc = "faces", !.regs = @ + 1]]
  /\ UNCHANGED <<fontsLoadedPromise, fetchCount, appVars, canvasVars, exportVars, wrapVars>>

\* fetch, resp.text() or the FontFace constructor throws inside the try
FontFetchFail ==
  /\ TaskReady
  /\ \E p \in 1..Len(promises) :
       /\ promises[p].pc = "fetch"
       /\ promises' = [promises EXCEPT ![p] = CatchFetch(@)]
  /\ UNCHANGED <<fontsLoadedPromise, fetchCount, appVars, canvasVars, exportVars, wrapVars>>

\* every face.load() has settled; Promise.all resolves
FontFacesSettled ==
  /\ TaskReady
  /\ \E p \in 1..Len(promises), anyFailed \in BOOLEAN :
       /\ promises[p].pc = "faces"
       /\ promises' = [promises EXCEPT ![p] = CatchFace(@, anyFailed)]
  /\ UNCHANGED <<fontsLoadedPromise, fetchCount, appVars, canvasVars, exportVars, wrapVars>>

\* document.fonts.ready resolves; the async body returns
FontsReady ==
  /\ TaskReady
  /\ \E p \in 1..Len(promises) :
       /\ promises[p].pc = "ready"
       /\ promises[p].state = "pending"
       /\ promises' = [promises EXCEPT ![p] = [@ EXCEPT !.pc = "done", !.state = "resolved"]]
  /\ UNCHANGED <<fontsLoadedPromise, fetchCount, appVars, canvasVars, exportVars, wrapVars>>

\* the re-render, as far as the handlers of the next event see it
CommitView ==
  /\ view' = Snapshot'
  /\ UNCHANGED <<canvasVars, fontVars>>

(***************************************************************************)
(* UI events of App: the handler each event runs (Ev), without the         *)
(* re-render that follows it.                                              *)
(***************************************************************************)
PickSequenceEv ==
  /\ TaskReady
  /\ ~HasSlides
  /\ \E k \in SequenceKeys : initFromSequence(k)
  /\ UNCHANGED <<exporting, nEvents, nBatch, exportVars, wrapVars>>

PickCustomEv ==
  /\ TaskReady
  /\ ~HasSlides
  /\ initCustom
  /\ UNCHANGED <<exporting, nEvents, nBatch, exportVars, wrapVars>>

ClickSlideEv ==
  /\ TaskReady
  /\ HasSlides
  /\ \E i \in 0..(Len(view.slides) - 1) : selectedIdx' = i
  /\ UNCHANGED <<slides, previewMode, exporting, nEvents, nBatch, exportVars, wrapVars>>

ClickPrevEv ==
  /\ TaskReady
  /\ PreviewMode
  /\ ~(view.selectedIdx = 0)
  /\ selectedIdx' = view.selectedIdx - 1
  /\ UNCHANGED <<slides, previewMode, exporting, nEvents, nBatch, exportVars, wrapVars>>

ClickNextEv ==
  /\ TaskReady
  /\ PreviewMode
  /\ ~(view.selectedIdx = Len(view.slides) - 1)
  /\ selectedIdx' = view.selectedIdx + 1
  /\ UNCHANGED <<slides, previewMode, exporting, nEvents, nBatch, exportVars, wrapVars>>

ClickPreviewEv ==
  /\ TaskReady
  /\ EditorMode
  /\ previewMode' = TRUE
  /\ UNCHANGED <<slides, selectedIdx, exporting, nEvents, nBatch, exportVars, wrapVars>>

ClickBackEv ==
  /\ TaskReady
  /\ PreviewMode
  /\ previewMode' = FALSE
  /\ UNCHANGED <<slides, selectedIdx, exporting, nEvents, nBatch, exportVars, wrapVars>>

ClickNewEv ==
  /\ TaskReady
  /\ EditorMode
  /\ nEvents < MaxEvents
  /\ slides' = NoSlides
  /\ selectedIdx' = 0
  /\ nEvents' = nEvents + 1
  /\ UNCHANGED <<previewMode, exporting, nBatch, exportVars, wrapVars>>

EditFieldEv ==
  /\ TaskReady
  /\ EditorMode
  /\ nEvents < MaxEvents
  /\ \E key \in EditKeys(CurrentSlide.template), value \in FieldValues :
       updateSlideData(view.selectedIdx, key, value)
  /\ nEvents' = nEvents + 1
  /\ UNCHANGED <<previewMode, exporting, nBatch, exportVars, wrapVars>>

SelectTemplateEv ==
  /\ TaskReady
  /\ EditorMode
  /\ ~IsLocked(CurrentSlide)
  /\ nEvents < MaxEvents
  /\ \E t \in SelectOptions \cap TemplateChoices : changeTemplate(view.selectedIdx, t)
  /\ nEvents' = nEvents + 1
  /\ UNCHANGED <<previewMode, exporting, nBatch, exportVars, wrapVars>>

ClickMoveUpEv ==
  /\ TaskReady
  /\ EditorMode
  /\ ~IsLocked(CurrentSlide)
  /\ ~(view.selectedIdx <= 1)
  /\ nEvents < MaxEvents
  /\ moveSlide(view.selectedIdx, -1)
  /\ nEvents' = nEvents + 1
  /\ UNCHANGED <<previewMode, exporting, nBatch, exportVars, wrapVars>>

ClickMoveDownEv ==
  /\ TaskReady
  /\ EditorMode
  /\ ~IsLocked(CurrentSlide)
  /\ ~(view.selectedIdx >= Len(view.slides) - 2)
  /\ nEvents < MaxEvents
  /\ moveSlide(view.selectedIdx, 1)
  /\ nEvents' = nEvents + 1
  /\ UNCHANGED <<previewMode, exporting, nBatch, exportVars, wrapVars>>

ClickInsertAfterEv ==
  /\ TaskReady
  /\ EditorMode
  /\ ~IsLocked(CurrentSlide)
  /\ ~(Len(view.slides) >= MaxSlides)
  /\ nEvents < MaxEvents
  /\ addSlide(view.selectedIdx)
  /\ nEvents' = nEvents + 1
  /\ UNCHANGED <<previewMode, exporting, nBatch, exportVars, wrapVars>>

ClickAddSlideEv ==
  /\ TaskReady
  /\ EditorMode
  /\ Len(view.slides) < MaxSlides
  /\ nEvents < MaxEvents
  /\ addSlide(Len(view.slides) - 2)
  /\ nEvents' = nEvents + 1
  /\ UNCHANGED <<previewMode, exporting, nBatch, exportVars, wrapVars>>

ClickRemoveEv ==
  /\ TaskReady
  /\ EditorMode
  /\ ~IsLocked(CurrentSlide)
  /\ ~(Len(view.slides) <= MinSlides)
  /\ nEvents < MaxEvents
  /\ removeSlide(view.selectedIdx)
  /\ nEvents' = nEvents + 1
  /\ UNCHANGED <<previewMode, exporting, nBatch, exportVars, wrapVars>>

ClickExportEv ==
  /\ TaskReady
  /\ EditorMode
  /\ ~ExportDisabled(view)
  /\ nEvents < MaxEvents
  /\ handleExport
  /\ nEvents' = nEvents + 1
  /\ UNCHANGED <<slides, selectedIdx, previewMode, nBatch, exports, exportLog, alerts, wrapVars>>

\* the setTimeout callback of handleExport:
\* try { exportPDF(slides) } catch (e) { console.error; alert }; setExporting(false)
ExportTimer ==
  /\ TaskReady
  /\ timers # <<>>
  /\ timers' = Tail(timers)
  /\ exportPDF(Head(timers))
  /\ alerts' = IF ExportPDFThrowsSync THEN alerts + 1 ELSE alerts
  /\ exporting' = FALSE
  /\ UNCHANGED <<slides, selectedIdx, previewMode, nEvents, nBatch, exportLog, nExports, wrapVars>>
  \* the re-render changes no prop of the main canvas: its effect does not run
  /\ view' = Snapshot'
  /\ UNCHANGED canvasVars

(***************************************************************************)
(* The events of the editor, each followed by the re-render it causes.     *)
(***************************************************************************)
PickSequence == PickSequenceEv /\ CommitView

PickCustom == PickCustomEv /\ CommitView

ClickSlide == ClickSlideEv /\ CommitView

ClickPrev == ClickPrevEv /\ CommitView

ClickNext == ClickNextEv /\ CommitView

ClickPreview == ClickPreviewEv /\ CommitView

ClickBack == ClickBackEv /\ CommitView

ClickNew == ClickNewEv /\ CommitView

EditField == EditFieldEv /\ CommitView

SelectTemplate == SelectTemplateEv /\ CommitView

ClickMoveUp == ClickMoveUpEv /\ CommitView

ClickMoveDown == ClickMoveDownEv /\ CommitView

ClickInsertAfter == ClickInsertAfterEv /\ CommitView

ClickAddSlide == ClickAddSlideEv /\ CommitView

ClickRemove == ClickRemoveEv /\ CommitView

ClickExport == ClickExportEv /\ CommitView

(***************************************************************************)
(* Spec: the editor of App driven through its UI.  React flushes the state *)
(* updates of a discrete DOM event before the next event is dispatched, so *)
(* every event is followed by the re-render.  Exports are started here and *)
(* carried out in SpecRender.                                              *)
(***************************************************************************)
InitApp ==
  /\ slides = NoSlides
  /\ selectedIdx = 0
  /\ previewMode = FALSE
  /\ exporting = FALSE
  /\ view = [slides |-> NoSlides, selectedIdx |-> 0,
             previewMode |-> FALSE, exporting |-> FALSE]
  /\ nEvents = 0
  /\ nBatch = 0
  /\ fontsLoadedPromise = 0
  /\ promises = <<>>
  /\ fetchCount = 0
  /\ canvases = [c \in CanvasIds |-> Unmounted]
  /\ thens = <<>>
  /\ lastCall = NoCall
  /\ timers = <<>>
  /\ exports = <<>>
  /\ exportLog = <<>>
  /\ alerts = 0
  /\ nExports = 0
  /\ moves = <<>>

Init ==
  /\ InitApp
  /\ rIn = NoRenderCall
  /\ rOut = <<>>
  /\ wIn = NoWrapCall
  /\ wOut = NoWrapResult

Next ==
  \/ PickSequence \/ PickCustom \/ ClickSlide \/ ClickPrev \/ ClickNext
  \/ ClickPreview \/ ClickBack \/ ClickNew
  \/ EditField \/ SelectTemplate \/ ClickMoveUp \/ ClickMoveDown
  \/ ClickInsertAfter \/ ClickAddSlide \/ ClickRemove
  \/ ClickExport \/ ExportTimer

Spec == Init /\ [][Next]_vars

(***************************************************************************)
(* SpecRender: App together with its main SlideCanvas, the font gate and   *)
(* the export.  The events are those that change what the canvas shows.    *)
(***************************************************************************)
PickSequenceR == PickSequenceEv /\ Commit

PickCustomR == PickCustomEv /\ Commit

ClickSlideR == ClickSlideEv /\ Commit

ClickPreviewR == ClickPreviewEv /\ Commit

ClickBackR == ClickBackEv /\ Commit

ClickNewR == ClickNewEv /\ Commit

EditFieldR == EditFieldEv /\ Commit

SelectTemplateR == SelectTemplateEv /\ Commit

ClickExportR == ClickExportEv /\ Commit

NextRender ==
  \/ PickSequenceR \/ PickCustomR \/ ClickSlideR \/ ClickPreviewR \/ ClickBackR
  \/ ClickNewR \/ EditFieldR \/ SelectTemplateR
  \/ ClickExportR \/ ExportTimer \/ ExportResume
  \/ FontFetchOk \/ FontFetchFail \/ FontFacesSettled \/ FontsReady
  \/ CanvasThen

SpecRender == Init /\ [][NextRender]_vars

(***************************************************************************)
(* SpecBatch: addSlide and removeSlide called again before App has         *)
(* re-rendered, so that their guards read the same `slides` snapshot.      *)
(***************************************************************************)
BatchAddSlide ==
  /\ HasSlides
  /\ nBatch < MaxBatch
  /\ \E afterIdx \in {view.selectedIdx, Len(view.slides) - 2} : addSlide(afterIdx)
  /\ nBatch' = nBatch + 1
  /\ UNCHANGED <<previewMode, exporting, view, nEvents, fontVars, canvasVars, exportVars, wrapVars>>

BatchRemoveSlide ==
  /\ HasSlides
  /\ nBatch < MaxBatch
  /\ removeSlide(view.selectedIdx)
  /\ nBatch' = nBatch + 1
  /\ UNCHANGED <<previewMode, exporting, view, nEvents, fontVars, canvasVars, exportVars, wrapVars>>

\* a slide of the list is clicked while no update is pending
BatchSelect == view = Snapshot /\ ClickSlide

\* App re-renders; rendering reads slides[selectedIdx]
Rerender ==
  /\ view # Snapshot
  /\ slides = NoSlides \/ selectedIdx < Len(slides)
  /\ view' = Snapshot
  /\ UNCHANGED <<slides, selectedIdx, previewMode, exporting, nEvents, nBatch,
                 fontVars, canvasVars, exportVars, wrapVars>>

\* Export PDF is clicked, and its timer fires, while no update is pending
BatchExport == view = Snapshot /\ nExports < MaxExports /\ ClickExport

BatchExportTimer == view = Snapshot /\ ExportTimer

NextBatch ==
  \/ PickSequence \/ PickCustom \/ BatchSelect
  \/ BatchAddSlide \/ BatchRemoveSlide \/ Rerender
  \/ BatchExport \/ BatchExportTimer

SpecBatch == Init /\ [][NextBatch]_vars

(***************************************************************************)
(* SpecEngine: the rendering entry points called with inputs drawn from    *)
(* bounded sets: SlideCanvas mounted, re-rendered and unmounted by a       *)
(* parent, exportPDF called with a slide list.                             *)
(***************************************************************************)
EngineTemplates == {"single", "nosuch"}

EngineProps ==
  {[template |-> t, data |-> EmptyData, slideNum |-> n] :
     t \in EngineTemplates, n \in {Null, Some(2)}}

EngineLists ==
  {<<[template |-> a, data |-> EmptyData], [template |-> b, data |-> EmptyData]>> :
     a \in EngineTemplates, b \in EngineTemplates}

EngineCommit ==
  /\ TaskReady
  /\ \E c \in CanvasIds, p \in EngineProps : SlideCanvasCommit(c, p, FALSE)
  /\ UNCHANGED <<appVars, exportVars, wrapVars>>

EngineUnmount ==
  /\ TaskReady
  /\ \E c \in CanvasIds : canvases[c].mounted /\ SlideCanvasUnmount(c)
  /\ UNCHANGED <<appVars, exportVars, wrapVars>>

EngineExport ==
  /\ TaskReady
  /\ nExports < MaxExports
  /\ \E s \in EngineLists : exportPDF(s)
  /\ nExports' = nExports + 1
  /\ UNCHANGED <<timers, exportLog, alerts, appVars, canvasVars, wrapVars>>

NextEngine ==
  \/ EngineCommit \/ EngineUnmount \/ EngineExport \/ ExportResume
  \/ FontFetchOk \/ FontFetchFail \/ FontFacesSettled \/ FontsReady
  \/ CanvasThen

SpecEngine == Init /\ [][NextEngine]_vars

(***************************************************************************)
(* SpecWrap: one wrapText call on a text, a width and an advance table     *)
(* drawn from the bounded sets above.                                      *)
(***************************************************************************)
InitWrap ==
  /\ InitApp
  /\ wIn \in WrapCalls
  /\ wOut = NoWrapResult
  /\ rIn = NoRenderCall
  /\ rOut = <<>>

WrapCall ==
  /\ wOut = NoWrapResult
  /\ wOut' = wrapText(wIn)
  /\ UNCHANGED <<wIn, rIn, rOut, moves, appVars, fontVars, canvasVars, exportVars>>

NextWrap == WrapCall

SpecWrap == InitWrap /\ [][NextWrap]_vars

(***************************************************************************)
(* SpecEmph: one drawTextWithEmphasis call on a text, an emphasis phrase   *)
(* and a width drawn from the bounded sets above.                          *)
(***************************************************************************)
InitEmph ==
  /\ InitApp
  /\ wIn \in EmphCalls
  /\ wOut = NoWrapResult
  /\ rIn = NoRenderCall
  /\ rOut = <<>>

EmphCall ==
  /\ wOut = NoWrapResult
  /\ wOut' = drawTextWithEmphasis(wIn)
  /\ UNCHANGED <<wIn, rIn, rOut, moves, appVars, fontVars, canvasVars, exportVars>>

NextEmph == EmphCall

SpecEmph == InitEmph /\ [][NextEmph]_vars

(***************************************************************************)
(* A render call: renderers[template](ctx, data, slideNum) on a surface    *)
(* whose font metrics are env.                                             *)
(***************************************************************************)
\* a dispatch that stamps the surface with a count of the renders so far
RenderStamped(template, data, slideNum, env) ==
  LET r == blank(data, slideNum, env)
  IN [r EXCEPT !.ops = Append(@, FillTextOp(<<StringOf(Len(rOut) + 1)>>, 64, 80,
                                            "400 20px 'JetBrains Mono', monospace",
                                            Grey))]

Render(template, data, slideNum, env) ==
  CASE template = "cover" -> cover(data, slideNum, env)
    [] template = "single" -> single(data, slideNum, env)
    [] template = "comparison" -> comparison(data, slideNum, env)
    [] template = "framework" -> framework(data, slideNum, env)
    [] template = "punchline" -> punchline(data, slideNum, env)
    [] template = "data" -> data_renderer(data, slideNum, env)
    [] template = "cta" -> cta(data, slideNum, env)
    [] template = "numbered_list" -> numbered_list(data, slideNum, env)
    [] template = "quote" -> quote(data, slideNum, env)
    [] template = "section_divider" -> section_divider(data, slideNum, env)
    [] template = "two_up" -> two_up(data, slideNum, env)
    [] template = "three_up" -> three_up(data, slideNum, env)
    [] template = "checklist" -> checklist(data, slideNum, env)
    [] template = "blank" -> blank(data, slideNum, env)

(***************************************************************************)
(* SpecDraw: one render call, with the template, the field values, the     *)
(* slide index and the font metrics drawn from the bounded sets above,     *)
(* run twice on a surface in the same initial state.                       *)
(***************************************************************************)
InitDraw ==
  /\ InitApp
  /\ wIn = NoWrapCall
  /\ wOut = NoWrapResult
  /\ rIn \in RenderCalls
  /\ rOut = <<>>

RenderFirst ==
  /\ rOut = <<>>
  /\ rOut' = <<Render(rIn.template, rIn.data, rIn.slideNum, rIn.env)>>
  /\ UNCHANGED <<rIn, wIn, wOut, moves, appVars, fontVars, canvasVars, exportVars>>

RenderAgain ==
  /\ Len(rOut) = 1
  /\ rOut' = Append(rOut, Render(rIn.template, rIn.data, rIn.slideNum, rIn.env))
  /\ UNCHANGED <<rIn, wIn, wOut, moves, appVars, fontVars, canvasVars, exportVars>>

NextDraw == RenderFirst \/ RenderAgain

SpecDraw == InitDraw /\ [][NextDraw]_vars

(***************************************************************************)
(* SpecMove: moveSlide called with every index and direction on a list     *)
(* installed from a blueprint or from the custom skeleton, each call       *)
(* followed by the re-render.                                              *)
(***************************************************************************)
MaxMoves == 2

MoveCall ==
  /\ TaskReady
  /\ HasSlides
  /\ Len(moves) < MaxMoves
  /\ \E idx \in 0..(Len(view.slides) - 1), dir \in {-1, 1} :
       /\ moveSlide(idx, dir)
       /\ moves' = Append(moves, [idx |-> idx, dir |-> dir, before |-> slides])
  /\ UNCHANGED <<previewMode, exporting, nEvents, nBatch, exportVars,
                 wIn, wOut, rIn, rOut>>
  /\ CommitView

NextMove == PickSequence \/ PickCustom \/ MoveCall

SpecMove == Init /\ [][NextMove]_vars

(***************************************************************************)
(* Properties.                                                             *)
(***************************************************************************)
Interior(s) == 2..(Len(s) - 1)

\* C1: whatever the UI lets the user do, the first slide is the cover, the
\* last slide is the CTA, and no slide in between is a cover or a CTA.
C1_CoverFirstCtaLast ==
  slides # NoSlides =>
    /\ slides[1].template = "cover"
    /\ slides[Len(slides)].template = "cta"
    /\ \A i \in Interior(slides) : slides[i].template \notin {"cover", "cta"}

\* two edits made, one of them a template change of an interior slide
C1_Witness ==
  /\ slides # NoSlides
  /\ nEvents = MaxEvents
  /\ \E i \in Interior(slides) : slides[i].template = "blank"
  /\ Len(slides) \notin {Len(SEQUENCES(k)) : k \in SequenceKeys}

InRange(n) == MinSlides <= n /\ n <= MaxSlides

\* C2: every export that is started, from the click to the call of
\* exportPDF, is given a list of 6 to 12 slides.
C2_ExportOnlyInRange ==
  /\ \A i \in 1..Len(timers) : InRange(Len(timers[i]))
  /\ \A i \in 1..Len(exports) : InRange(Len(exports[i].slides))

\* exportPDF runs on a 12-slide list while App holds more than 12 slides
C2_Witness ==
  /\ \E i \in 1..Len(exports) : Len(exports[i].slides) = MaxSlides
  /\ Len(view.slides) > MaxSlides

\* C3: addSlide and removeSlide keep the slide count between 6 and 12, also
\* when several calls are made before App re-renders.
C3_CountStaysInRange ==
  [][slides' # NoSlides =>
       /\ Len(slides') <= MaxSlides
       /\ Len(slides') < Len(slides) => Len(slides') >= MinSlides]_vars

\* C4: a renderer is called, by a SlideCanvas or by exportPDF, only after
\* the promise returned by ensureFontsLoaded has resolved.
C4_FontsBeforeRender ==
  /\ lastCall.canvas # "" => lastCall.fonts = "resolved"
  /\ \A i \in 1..Len(exportLog) :
       exportLog[i].pages # <<>> => exportLog[i].fonts = "resolved"

\* the main canvas has been painted and an export has drawn its pages
C4_Witness ==
  /\ lastCall.canvas = "main"
  /\ lastCall.call.outcome = "painted"
  /\ \E i \in 1..Len(exportLog) : exportLog[i].pages # <<>>

\* C5: however many times ensureFontsLoaded is called, the font CSS is
\* fetched at most once, the faces are registered at most once, and every
\* caller holds the same promise.
C5_FontGateOnce ==
  /\ fetchCount <= 1
  /\ Len(promises) <= 1
  /\ \A p \in 1..Len(promises) : promises[p].regs <= 1
  /\ \A i \in 1..Len(thens) : thens[i].promise = fontsLoadedPromise
  /\ \A i \in 1..Len(exports) : exports[i].promise = fontsLoadedPromise

\* two mounted canvases and an export went through the gate, and the
\* fonts were fetched and registered once
C5_Witness ==
  /\ fetchCount = 1
  /\ promises[1].regs = 1
  /\ \A c \in CanvasIds : canvases[c].painted.outcome = "painted"
  /\ exportLog # <<>>

\* C6: a failed font CSS fetch or a failed face load is logged, the promise
\* never rejects and resolves when its body ends, and no export fails on
\* the font wait.
C6_FontFailureNonFatal ==
  /\ \A p \in 1..Len(promises) :
       /\ promises[p].state # "rejected"
       /\ promises[p].pc = "done" => promises[p].state = "resolved"
       /\ promises[p].pc = "fetch" => promises[p].warned = {}
  /\ \A i \in 1..Len(exportLog) : exportLog[i].failed # "fonts"

\* the fetch failed and was logged; the canvas was painted and a document
\* was saved all the same
C6_Witness ==
  /\ fontsLoadedPromise # 0
  /\ "css" \in promises[fontsLoadedPromise].warned
  /\ lastCall.call.outcome = "painted"
  /\ \E i \in 1..Len(exportLog) : exportLog[i].outcome = "saved"

\* C7: a document is saved only as the last step of an export that drew
\* every slide, and an export that fails shows the alert of handleExport.
C7_ExportFailureReported ==
  /\ \A i \in 1..Len(exportLog) :
       exportLog[i].outcome = "saved" => Len(exportLog[i].pages) = exportLog[i].n
  /\ (\E i \in 1..Len(exportLog) : exportLog[i].outcome = "rejected") => alerts > 0

\* C8: a dispatch on a template that is not registered is never skipped in
\* silence: no canvas effect skips it, and no export that skipped it saves.
C8_UnknownTemplateSignalled ==
  /\ lastCall.call.outcome # "skipped"
  /\ \A i \in 1..Len(exportLog) :
       (\E j \in 1..Len(exportLog[i].pages) :
          exportLog[i].pages[j].outcome = "skipped")
         => exportLog[i].outcome = "rejected"

NoIndex == {"cover", "cta", "punchline", "section_divider"}
TwoDigits ==
  <<"01", "02", "03", "04", "05", "06", "07", "08", "09", "10", "11", "12", "13">>

\* what C9 requires of the dispatch on the slide at list position pos
IndexDecision(call, pos) ==
  /\ call.slideNum = IF call.template \in NoIndex THEN Null ELSE Some(pos)
  /\ call.label = IF call.slideNum = Null THEN "" ELSE TwoDigits[call.slideNum[1]]

\* C9: the main canvas and exportPDF pass position + 1 (in source indices)
\* unless the template is cover, cta, punchline or section_divider, and
\* null when it is; the label drawn is the two-digit index exactly when
\* the index is not null.
C9_IndexLabel ==
  /\ (view.slides # NoSlides /\ canvases["main"].mounted) =>
        LET p == canvases["main"].props
        IN /\ p.template = view.slides[view.selectedIdx + 1].template
           /\ p.slideNum = IF p.template \in NoIndex
                             THEN Null ELSE Some(view.selectedIdx + 1)
  /\ lastCall.canvas = "main" =>
        IndexDecision(lastCall.call, IF lastCall.call.slideNum = Null
                                       THEN 0 ELSE lastCall.call.slideNum[1])
  /\ \A i \in 1..Len(exportLog) : \A j \in 1..Len(exportLog[i].pages) :
        IndexDecision(exportLog[i].pages[j], j)

\* an export has drawn a labelled page and a punchline page without label,
\* and the main canvas shows a labelled slide
C9_Witness ==
  /\ lastCall.canvas = "main"
  /\ lastCall.call.label # ""
  /\ \E i \in 1..Len(exportLog) :
       \E j, k \in 1..Len(exportLog[i].pages) :
         /\ exportLog[i].pages[j].label = TwoDigits[j]
         /\ exportLog[i].pages[k].template = "punchline"
         /\ exportLog[i].pages[k].label = ""

RECURSIVE WordsOf(_)
\* the words of a list of paragraphs, in order
WordsOf(paragraphs) ==
  IF paragraphs = <<>>
    THEN <<>>
    ELSE Split(Head(paragraphs), " ") \o WordsOf(Tail(paragraphs))

TooWide(s) == Measure(s, wIn.advance) > wIn.maxWidth
IsWord(s) == s # <<>> /\ \A k \in 1..Len(s) : s[k] \notin WhiteSpace

\* C10: a line laid out by wrapText is wider than maxWidth only when it is
\* a single word, and the lines wider than maxWidth are exactly the words of
\* the text wider than maxWidth, each whole and in the order of the text.
C10_LinesFit ==
  wOut.ret >= 0 =>
    /\ \A i \in 1..Len(wOut.lines) :
         TooWide(wOut.lines[i]) => IsWord(wOut.lines[i])
    /\ \A i \in 1..Len(wOut.draws) :
         TooWide(wOut.draws[i].text) => IsWord(wOut.draws[i].text)
    /\ SelectSeq(wOut.lines, TooWide)
         = SelectSeq(WordsOf(Split(wIn.text, "\n")), TooWide)

\* a call that laid out a word wider than maxWidth on a line of its own and
\* a line of two words that fits
C10_Witness ==
  /\ wOut.ret >= 2
  /\ \E i \in 1..Len(wOut.lines) : TooWide(wOut.lines[i])
  /\ \E i \in 1..Len(wOut.lines) :
       /\ ~TooWide(wOut.lines[i])
       /\ \E k \in 1..Len(wOut.lines[i]) : wOut.lines[i][k] = " "

IsBlankText(s) == \A k \in 1..Len(s) : s[k] \in WhiteSpace

RECURSIVE LinesPerParagraph(_)
\* one line for a blank paragraph, and for any other paragraph the lines it
\* is wrapped into on its own
LinesPerParagraph(paragraphs) ==
  IF paragraphs = <<>>
    THEN 0
    ELSE (IF IsBlankText(Head(paragraphs))
            THEN 1
            ELSE Len(WrapParagraphs(<<Head(paragraphs)>>, <<>>,
                                    wIn.maxWidth, wIn.advance)))
         + LinesPerParagraph(Tail(paragraphs))

\* the number of non-empty lines among the first i lines laid out
DrawnUpTo(i) == Cardinality({j \in 1..i : wOut.lines[j] # <<>>})

\* C11: every blank paragraph adds exactly one line to the count returned
\* and no draw call, and the i-th line laid out (from 0, blank lines
\* counted), when not empty, is drawn at y + i * lineHeight.
C11_BlankParagraphsAreSpacers ==
  (wOut.ret >= 0 /\ wIn.given /\ wIn.text # <<>>) =>
    /\ wOut.ret = Len(wOut.lines)
    /\ wOut.ret = LinesPerParagraph(Split(wIn.text, "\n"))
    /\ Len(wOut.draws) = DrawnUpTo(Len(wOut.lines))
    /\ \A i \in 1..Len(wOut.lines) :
         wOut.lines[i] # <<>> =>
           wOut.draws[DrawnUpTo(i)]
             = [text |-> wOut.lines[i], x |-> wIn.x,
                y |-> wIn.y + (i - 1) * wIn.lineHeight]

\* two one-word paragraphs with an empty paragraph between them: 3 lines
\* returned, 2 drawn, at y and at y + 2 * lineHeight
C11_Witness ==
  /\ wIn.text = <<"a", "\n", "\n", "M">>
  /\ wOut.ret = 3
  /\ Len(wOut.draws) = 2
  /\ wOut.draws[1].y = wIn.y
  /\ wOut.draws[2].y = wIn.y + 2 * wIn.lineHeight

\* C12: called with the empty string or with no text, wrapText returns 0,
\* draws nothing and measures nothing.
C12_EmptyTextDrawsNothing ==
  (wOut.ret >= 0 /\ (~wIn.given \/ wIn.text = <<>>)) =>
    /\ wOut.ret = 0
    /\ wOut.draws = <<>>
    /\ wOut.measures = 0

\* a call with the empty string has returned
C12_Witness == wIn.given /\ wIn.text = <<>> /\ wOut.ret = 0

\* a call with the text left undefined has returned
C12_WitnessUndefined == ~wIn.given /\ wOut.ret = 0

\* C13: with an empty phrase, or a phrase that is no case-insensitive
\* substring of the text, drawTextWithEmphasis makes the draw calls and
\* returns the value of wrapText on the same arguments; with any phrase it
\* returns the line count of wrapText.
C13_AgreesWithWrapText ==
  wOut.ret >= 0 =>
    /\ wOut.ret = wrapText(wIn).ret
    /\ (wIn.emphasisWord = <<>>
          \/ ~Includes(ToLowerCase(wIn.text), ToLowerCase(wIn.emphasisWord)))
         => /\ wOut.draws = wrapText(wIn).draws
            /\ wOut.lines = wrapText(wIn).lines

\* a call on the emphasis path that wrapped its text into several lines
\* and drew an emphasised word
C13_Witness ==
  /\ wOut.ret >= 2
  /\ wIn.emphasisWord # <<>>
  /\ Includes(ToLowerCase(wIn.text), ToLowerCase(wIn.emphasisWord))
  /\ \E k \in 1..Len(wOut.draws) : wOut.draws[k].emph

\* the call took the emphasis path
OnEmphasisPath ==
  /\ wOut.ret > 0
  /\ wIn.emphasisWord # <<>>
  /\ Includes(ToLowerCase(wIn.text), ToLowerCase(wIn.emphasisWord))

\* C14: a word is drawn emphasised exactly when its lowercase form,
\* stripped of punctuation at its two ends, is one of the lowercase
\* sub-words of the phrase; punctuation inside the word is not removed.
C14_EmphasisMatching ==
  OnEmphasisPath =>
    \A k \in 1..Len(wOut.draws) :
      wOut.draws[k].emph
        <=> (\E j \in 1..Len(Split(ToLowerCase(wIn.emphasisWord), " ")) :
               Split(ToLowerCase(wIn.emphasisWord), " ")[j]
                 = CleanEnds(ToLowerCase(wOut.draws[k].text)))

\* the first render of the call
Drawn == rOut[1].ops

\* the draw calls of the kind op, in the order issued
OpsOf(ops, kind) == SelectSeq(ops, LAMBDA o : o.op = kind)

IsFlowCall ==
  /\ rIn.template = "framework"
  /\ rOut # <<>>
  /\ FrameworkType(rIn.data) = <<"flow">>
  /\ Len(FrameworkLabels(rIn.data)) >= 1

\* the boxes of the flow diagram and the labels written in them
FlowBoxes == OpsOf(Drawn, "strokeRect")
FlowTexts == SelectSeq(Drawn, LAMBDA o : o.op = "fillText" /\ o.font = LabelFont)

\* box widths and arrow widths of the labels in a single row
SingleRowWidth ==
  LET labels == FrameworkLabels(rIn.data)
  IN SumSeq([i \in 1..Len(labels) |->
               Measure(labels[i], AdvanceAt(rIn.env, 24)) + 2 * 28])
     + (Len(labels) - 1) * 36

ContentCentreX == (176 + 1016) \div 2

\* boxes from..to form one row: the same top, an arrow's width between
\* neighbours, and as far left of the content centre as right of it
IsCentredRow(boxes, from, to) ==
  /\ \A i \in from..to : boxes[i].y = boxes[from].y
  /\ \A i \in from..(to - 1) : boxes[i + 1].x = boxes[i].x + boxes[i].w + 36
  /\ from <= to => ContentCentreX - boxes[from].x
                     = boxes[to].x + boxes[to].w - ContentCentreX

\* C15: the flow diagram of n labels (1 <= n <= 8) draws one box per label, in
\* order; when the box widths plus n - 1 arrow widths are at most the content
\* width the boxes form a single row, otherwise exactly two rows of the first
\* ceil(n/2) and the remaining floor(n/2) labels; every row is centred on the
\* content centre x.
C15_FlowLayout ==
  IsFlowCall =>
    LET labels == FrameworkLabels(rIn.data)
        n == Len(labels)
        first == (n + 1) \div 2
    IN /\ n \in 1..8
       /\ Len(FlowBoxes) = n
       /\ Len(FlowTexts) = n
       /\ \A i \in 1..n :
            /\ FlowTexts[i].text = labels[i]
            /\ FlowBoxes[i].w = Measure(labels[i], AdvanceAt(rIn.env, 24)) + 2 * 28
            /\ FlowTexts[i].x = FlowBoxes[i].x + FlowBoxes[i].w \div 2
       /\ IF SingleRowWidth <= 1016 - 176
            THEN IsCentredRow(FlowBoxes, 1, n)
            ELSE /\ IsCentredRow(FlowBoxes, 1, first)
                 /\ IsCentredRow(FlowBoxes, first + 1, n)
                 /\ n - first = n \div 2
                 /\ n > first => FlowBoxes[first + 1].y > FlowBoxes[1].y

\* seven labels too wide for one row are drawn as a row of four above a row
\* of three
C15_Witness ==
  /\ IsFlowCall
  /\ Len(FrameworkLabels(rIn.data)) = 7
  /\ SingleRowWidth > 1016 - 176
  /\ Len(FlowBoxes) = 7
  /\ FlowBoxes[4].y = FlowBoxes[1].y
  /\ FlowBoxes[5].y > FlowBoxes[4].y
  /\ FlowBoxes[7].y = FlowBoxes[5].y

\* six labels that fill the content width exactly are drawn in a single row
C15_WitnessExactFit ==
  /\ IsFlowCall
  /\ SingleRowWidth = 1016 - 176
  /\ Len(FlowBoxes) = 6
  /\ FlowBoxes[6].y = FlowBoxes[1].y

IsCycleCall ==
  /\ rIn.template = "framework"
  /\ rOut # <<>>
  /\ FrameworkType(rIn.data) = <<"cycle">>
  /\ Len(FrameworkLabels(rIn.data)) >= 1

CycleNodes == OpsOf(Drawn, "node")

\* the width of the widest label in the label font
WidestLabelWidth ==
  LET labels == FrameworkLabels(rIn.data)
      w(i) == Measure(labels[i], AdvanceAt(rIn.env, 24))
  IN w(CHOOSE i \in 1..Len(labels) : \A j \in 1..Len(labels) : w(j) <= w(i))

\* the diagram centre: the middle of the content width and of the area
\* between y = 230 and the caption line
DiagramCentre ==
  [x |-> ContentCentreX,
   y |-> IF "caption" \in DOMAIN rIn.data /\ rIn.data["caption"] # <<>>
           THEN (230 + 960) \div 2
           ELSE (230 + 1000) \div 2]

\* the angle num/den of a full turn is deg/n degrees
IsDegrees(num, den, deg, n) == num * 360 * n = deg * den

\* C16: the cycle diagram of n labels draws node i (0-based) centred at the
\* angle -90 + (i/n) * 360 degrees on the ring around the diagram centre, and
\* every node with the radius max(36, widestLabelWidth/2 + 16).
C16_CycleLayout ==
  IsCycleCall =>
    LET n == Len(FrameworkLabels(rIn.data))
        ring == OpsOf(Drawn, "ring")
        r == WidestLabelWidth \div 2 + 16
    IN /\ Len(CycleNodes) = n
       /\ Len(ring) = 1
       /\ ring[1].x = DiagramCentre.x /\ ring[1].y = DiagramCentre.y
       /\ \A k \in 1..n :
            /\ CycleNodes[k].at.cx = DiagramCentre.x
            /\ CycleNodes[k].at.cy = DiagramCentre.y
            /\ CycleNodes[k].at.r100 = ring[1].r100
            /\ IsDegrees(CycleNodes[k].at.num, CycleNodes[k].at.den,
                         -90 * n + (k - 1) * 360, n)
            /\ CycleNodes[k].r = IF r > 36 THEN r ELSE 36

\* three labels, the widest 60 wide: nodes at -90, 30 and 150 degrees, all of
\* radius 46
C16_Witness ==
  /\ IsCycleCall
  /\ Len(CycleNodes) = 3
  /\ WidestLabelWidth = 60
  /\ \A k \in 1..3 : CycleNodes[k].r = 46
  /\ IsDegrees(CycleNodes[1].at.num, CycleNodes[1].at.den, -90, 1)
  /\ IsDegrees(CycleNodes[2].at.num, CycleNodes[2].at.den, 30, 1)
  /\ IsDegrees(CycleNodes[3].at.num, CycleNodes[3].at.den, 150, 1)

\* labels 24 wide: the node radius is the minimum 36
C16_WitnessMinRadius ==
  /\ IsCycleCall
  /\ WidestLabelWidth = 24
  /\ CycleNodes[1].r = 36

IsCoverCall == rIn.template = "cover" /\ rOut # <<>>

\* the wrapped title's line count: the title, or the placeholder when there
\* is none, wrapped to the channel width in the title font
TitleLineCount ==
  LET title == IF "title" \in DOMAIN rIn.data /\ rIn.data["title"] # <<>>
                 THEN rIn.data["title"]
                 ELSE <<"Your", " ", "Title", " ", "Here">>
  IN wrapText([given |-> TRUE, text |-> title, x |-> 304, y |-> 420,
               maxWidth |-> 472, lineHeight |-> 80,
               advance |-> AdvanceAt(rIn.env, 72)]).ret

\* the accent rule: the red 80 x 4 bar
AccentRules ==
  SelectSeq(Drawn, LAMBDA o : o.op = "fillRect" /\ o.w = 80 /\ o.h = 4)

\* the lines of the subtitle
SubtitleLines ==
  SelectSeq(Drawn, LAMBDA o : o.op = "fillText" /\ o.font = CoverSubtitleFont)

\* C17: the cover draws its accent rule at y = 420 + 80 * L + 16, L being the
\* wrapped title's line count, and the subtitle from 44 below the rule: its
\* line i (0-based, blank lines counted) at rule y + 44 + 42 * i.
C17_CoverRule ==
  IsCoverCall =>
    /\ Len(AccentRules) = 1
    /\ AccentRules[1].y = 420 + 80 * TitleLineCount + 16
    /\ \A k \in 1..Len(SubtitleLines) :
         \E i \in 0..5 : SubtitleLines[k].y = AccentRules[1].y + 44 + 42 * i
    /\ ("subtitle" \in DOMAIN rIn.data /\ rIn.data["subtitle"] # <<>>
          /\ Head(rIn.data["subtitle"]) \notin {" ", "\n"})
         => /\ SubtitleLines # <<>>
            /\ SubtitleLines[1].y = AccentRules[1].y + 44

\* a title of three lines: the rule is 2 * 80 below the rule of a one-line
\* title (420 + 80 + 16), and the subtitle 44 below it
C17_Witness ==
  /\ IsCoverCall
  /\ TitleLineCount = 3
  /\ AccentRules[1].y = (420 + 80 + 16) + 2 * 80
  /\ SubtitleLines # <<>>
  /\ SubtitleLines[1].y = AccentRules[1].y + 44

\* a title of one line: the rule at 420 + 80 + 16
C17_WitnessOneLine ==
  /\ IsCoverCall
  /\ TitleLineCount = 1
  /\ AccentRules[1].y = 516

RECURSIVE GlyphsDrawn(_, _)
GlyphsDrawn(ops, font) ==
  IF ops = <<>>
    THEN <<>>
    ELSE (IF Head(ops).op = "fillText" /\ Head(ops).font = font
            THEN SelectSeq(Head(ops).text, LAMBDA g : g \notin {" ", "\n"})
            ELSE <<>>)
         \o GlyphsDrawn(Tail(ops), font)

\* the required slots: template, field, the font the slot is drawn in and the
\* words of its placeholder
RequiredSlots ==
  {<<"cover", "title", "700 72px 'Inter Tight', sans-serif",
     <<"Your", "Title", "Here">> >>,
   <<"single", "headline", "700 68px 'Inter Tight', sans-serif", <<"Headline">> >>,
   <<"framework", "title", "700 52px 'Inter Tight', sans-serif", <<"Framework">> >>,
   <<"punchline", "text", "700 76px 'Inter Tight', sans-serif",
     <<"Your", "punchline", "here.">> >>,
   <<"data", "data_point", "700 108px 'JetBrains Mono', monospace", <<"0%">> >>,
   <<"cta", "cta_text", "600 40px 'Inter Tight', sans-serif",
     <<"Subscribe", "for", "more.">> >>,
   <<"cta", "url", "400 26px 'JetBrains Mono', monospace", <<"tightmargins.com">> >>,
   <<"numbered_list", "headline", "700 68px 'Inter Tight', sans-serif",
     <<"Your", "List">> >>,
   <<"quote", "quote_text", "italic 500 32px 'Newsreader', Georgia, serif",
     <<"Your", "quote", "here.">> >>,
   <<"section_divider", "part_label", "400 16px 'JetBrains Mono', monospace",
     <<"PART", "ONE">> >>,
   <<"section_divider", "section_title", "700 44px 'Inter Tight', sans-serif",
     <<"Section", "Title">> >>,
   <<"two_up", "headline", "700 68px 'Inter Tight', sans-serif",
     <<"Two", "things">> >>,
   <<"three_up", "headline", "700 68px 'Inter Tight', sans-serif",
     <<"Three", "pillars">> >>,
   <<"checklist", "headline", "700 68px 'Inter Tight', sans-serif",
     <<"Do", "this,", "not", "that">> >>}

\* the optional slots: template, field and the font the slot is drawn in
OptionalSlots ==
  {<<"cover", "subtitle", "500 32px 'Newsreader', Georgia, serif">>,
   <<"comparison", "vs_label", "700 22px 'JetBrains Mono', monospace">>,
   <<"framework", "caption", "500 24px 'Newsreader', Georgia, serif">>,
   <<"framework", "labels", "500 24px 'JetBrains Mono', monospace">>,
   <<"data", "source", "italic 500 20px 'Newsreader', Georgia, serif">>,
   <<"cta", "handle", "400 22px 'JetBrains Mono', monospace">>,
   <<"quote", "attribution", "400 16px 'JetBrains Mono', monospace">>,
   <<"blank", "header", "700 40px 'Inter Tight', sans-serif">>,
   <<"blank", "callout", "italic 400 18px 'Newsreader', Georgia, serif">>}

\* the field is absent from the record or is the empty string
IsMissing(key) == key \notin DOMAIN rIn.data \/ rIn.data[key] = <<>>

\* C19: for every template and every record of field values with fields
\* absent or empty, the renderer completes without throwing; a required slot
\* whose field is missing shows its placeholder text, an optional slot whose
\* field is missing is not drawn, and without labels no diagram is drawn.
C19_MissingFieldsHandled ==
  rOut # <<>> =>
    /\ ~rOut[1].threw
    /\ \A s \in RequiredSlots :
         (rIn.template = s[1] /\ IsMissing(s[2]))
           => GlyphsDrawn(Drawn, s[3]) = s[4]
    /\ \A s \in OptionalSlots :
         (rIn.template = s[1] /\ IsMissing(s[2]))
           => \A i \in 1..Len(Drawn) :
                Drawn[i].op = "fillText" => Drawn[i].font # s[3]
    /\ (rIn.template = "framework" /\ IsMissing("labels"))
         => \A i \in 1..Len(Drawn) :
              Drawn[i].op \notin {"strokeRect", "triangle", "ring", "node"}

\* the cover rendered from the empty record: the placeholder title and no
\* subtitle
C19_Witness ==
  /\ rOut # <<>>
  /\ rIn.template = "cover"
  /\ DOMAIN rIn.data = {}
  /\ ~rOut[1].threw
  /\ GlyphsDrawn(Drawn, CoverTitleFont) = <<"Your", "Title", "Here">>
  /\ GlyphsDrawn(Drawn, CoverSubtitleFont) = <<>>

\* the framework rendered from a record without labels
C19_WitnessNoLabels ==
  /\ rOut # <<>>
  /\ rIn.template = "framework"
  /\ "labels" \notin DOMAIN rIn.data
  /\ ~rOut[1].threw

RECURSIVE LeadingFills(_)
\* the fillRect calls issued before any other draw call
LeadingFills(ops) ==
  IF ops = <<>> \/ Head(ops).op # "fillRect"
    THEN <<>>
    ELSE <<Head(ops)>> \o LeadingFills(Tail(ops))

\* the rectangles cover the side x side square: every corner of the grid
\* spanned by the rectangles' edges that lies in the square lies in one of
\* them
CoversSurface(rects, side) ==
  LET xs == {0} \cup {rects[i].x : i \in 1..Len(rects)}
               \cup {rects[i].x + rects[i].w : i \in 1..Len(rects)}
      ys == {0} \cup {rects[i].y : i \in 1..Len(rects)}
               \cup {rects[i].y + rects[i].h : i \in 1..Len(rects)}
  IN \A x \in {v \in xs : v < side}, y \in {v \in ys : v < side} :
       \E i \in 1..Len(rects) :
         /\ rects[i].x <= x /\ x < rects[i].x + rects[i].w
         /\ rects[i].y <= y /\ y < rects[i].y + rects[i].h

\* C20: every renderer begins with background fillRect calls, in an opaque
\* colour of the palette, whose union is the whole 1080 x 1080 surface.
C20_SurfaceOverwritten ==
  rOut # <<>> =>
    /\ LeadingFills(Drawn) # <<>>
    /\ \A i \in 1..Len(LeadingFills(Drawn)) :
         LeadingFills(Drawn)[i].style \in {"#F0EDEA", "#333333"}
    /\ CoversSurface(LeadingFills(Drawn), 1080)

\* the cover's three bands [0,280), [280,800), [800,1080), each 1080 high
C20_Witness ==
  /\ rOut # <<>>
  /\ rIn.template = "cover"
  /\ Len(LeadingFills(Drawn)) = 3
  /\ \A i \in 1..3 : LeadingFills(Drawn)[i].y = 0 /\ LeadingFills(Drawn)[i].h = 1080
  /\ LeadingFills(Drawn)[1].x = 0 /\ LeadingFills(Drawn)[1].w = 280
  /\ LeadingFills(Drawn)[2].x = 280 /\ LeadingFills(Drawn)[2].w = 520
  /\ LeadingFills(Drawn)[3].x = 800 /\ LeadingFills(Drawn)[3].w = 280
  /\ CoversSurface(LeadingFills(Drawn), 1080)

SavedRuns == {i \in 1..Len(exportLog) : exportLog[i].outcome = "saved"}

\* C21: exportPDF handles the slides one at a time in list order; the canvas
\* is cleared before each slide; every slide starts from the same context
\* state (scale 1, empty stack) and is drawn at scale 2, never more; a saved
\* document has one page per slide, and page k holds the image of slide k only.
C21_ExportLoopIsolated ==
  \A i \in 1..Len(exportLog) :
    LET r == exportLog[i].run
    IN /\ Len(r.frames) <= exportLog[i].n
       /\ \A k \in 1..Len(r.frames) :
            /\ r.frames[k].slide = k
            /\ r.frames[k].cleared = <<>>
            /\ r.frames[k].start = r.frames[1].start
       /\ r.ctx.scale = 1 /\ r.ctx.stack = <<>>
       /\ Len(r.pdf) = Len(r.frames)
       /\ i \in SavedRuns =>
            /\ Len(r.pdf) = exportLog[i].n
            /\ \A k \in 1..Len(r.pdf) :
                 r.pdf[k] = <<<<[slide |-> k, call |-> exportLog[i].pages[k], scale |-> 2]>>>>

\* a document of at least six pages was saved
C21_Witness ==
  \E i \in SavedRuns :
    /\ Len(exportLog[i].run.pdf) >= MinSlides
    /\ Len(exportLog[i].run.frames) = Len(exportLog[i].run.pdf)

LockedField(s) == "locked" \in DOMAIN s /\ s.locked = TRUE

\* a slide list as C22 requires it
WellFormedCarousel(s) ==
  /\ Len(s) >= 2
  /\ s[1].template = "cover" /\ LockedField(s[1])
  /\ s[Len(s)].template = "cta" /\ LockedField(s[Len(s)])
  /\ \A i \in Interior(s) :
       ~LockedField(s[i]) /\ s[i].template \notin {"cover", "cta"}
  /\ \A i \in 1..Len(s) : s[i].template \in Registered \cap RendererIds

\* s is the copy initFromSequence makes of blueprint k
CopyOfBlueprint(s, k) ==
  /\ Len(s) = Len(SEQUENCES(k))
  /\ \A i \in 1..Len(s) :
       /\ DOMAIN s[i] = {"template", "locked", "note", "data"}
       /\ s[i].template = SEQUENCES(k)[i].template
       /\ s[i].locked = LockedField(SEQUENCES(k)[i])
       /\ s[i].note = SEQUENCES(k)[i].note
       /\ s[i].data = EmptyData

\* C22: every blueprint is a well-formed carousel of 6 to 12 slides, and the
\* list that initFromSequence or initCustom installs is well formed: cover
\* first and locked, cta last and locked, every slide in between unlocked
\* and neither cover nor cta, every template registered with a renderer;
\* initFromSequence copies template, lock flag and note with empty data.
C22_InitWellFormed ==
  [][(slides = NoSlides /\ slides' # NoSlides) =>
       /\ \A k \in SequenceKeys :
            WellFormedCarousel(SEQUENCES(k)) /\ InRange(Len(SEQUENCES(k)))
       /\ WellFormedCarousel(slides')
       /\ \A i \in 1..Len(slides') : slides'[i].data = EmptyData
       /\ Len(slides') # 3 => \E k \in SequenceKeys : CopyOfBlueprint(slides', k)
       /\ selectedIdx' = 0]_vars

\* the twelve-slide playbook has just been installed, after a reset
C22_Witness ==
  /\ slides # NoSlides
  /\ CopyOfBlueprint(slides, "playbook")
  /\ nEvents > 0
  /\ selectedIdx = 0

IsListCall == rIn.template = "numbered_list" /\ rOut # <<>>

\* the slots 1..5 whose title is a non-empty text, in slot order
TitledSlots ==
  SelectSeq(<<1, 2, 3, 4, 5>>,
            LAMBDA n : /\ ItemKey(n, "title") \in DOMAIN rIn.data
                       /\ rIn.data[ItemKey(n, "title")] # <<>>)

\* the draw calls of the list: item numbers, item titles, separators, and
\* the lines of the headline
ListNumbers ==
  SelectSeq(Drawn, LAMBDA o : /\ o.op = "fillText"
                              /\ o.font = "700 36px 'JetBrains Mono', monospace")
ListTitles ==
  SelectSeq(Drawn, LAMBDA o : /\ o.op = "fillText"
                              /\ o.font = "600 24px 'Inter Tight', sans-serif")
ListSeparators ==
  SelectSeq(Drawn, LAMBDA o : o.op = "line" /\ o.x = 176 + 72 /\ o.x2 = 176 + 524)
ListHeadline ==
  SelectSeq(Drawn, LAMBDA o : o.op = "fillText" /\ o.font = HeadlineFont)

\* C23: with k the number of slots 1..5 that have a non-empty title, the
\* numbered list spaces its items by 140 when k <= 3, 118 when k = 4 and 100
\* when k = 5; the j-th titled item (from 0) is placed at listStart + j *
\* spacing; with k = 0 only the page ground and the headline are drawn.
C23_ListSpacing ==
  IsListCall =>
    LET k == Len(TitledSlots)
        spacing == CASE k <= 3 -> 140 [] k = 4 -> 118 [] OTHER -> 100
        listStart == Max(180 + Len(ListHeadline) * 76 + 34, 290)
    IN /\ Len(ListNumbers) = k
       /\ Len(ListTitles) = k
       /\ Len(ListSeparators) = IF k = 0 THEN 0 ELSE k - 1
       /\ \A j \in 0..(k - 1) :
            /\ ListNumbers[j + 1].text = <<StringOf(j + 1)>>
            /\ ListNumbers[j + 1].y = listStart + j * spacing + 28
            /\ ListTitles[j + 1].text = rIn.data[ItemKey(TitledSlots[j + 1], "title")]
            /\ ListTitles[j + 1].y = listStart + j * spacing + 20
       /\ \A j \in 1..(k - 1) :
            ListSeparators[j].y = listStart + j * spacing - 16
       /\ k = 0 => Drawn = PageOps(rIn.slideNum) \o ListHeadline

\* five titled items under a two-line headline, 100 apart
C23_Witness ==
  /\ IsListCall
  /\ Len(TitledSlots) = 5
  /\ Len(ListHeadline) = 2
  /\ ListTitles[5].y - ListTitles[4].y = 100

\* four titled items, the first slot empty, 118 apart
C23_WitnessFour ==
  /\ IsListCall
  /\ TitledSlots = <<2, 3, 4, 5>>
  /\ ListTitles[2].y - ListTitles[1].y = 118

\* no titled item: the headline alone
C23_WitnessNone ==
  /\ IsListCall
  /\ TitledSlots = <<>>
  /\ ListHeadline # <<>>

\* the measured width of the row made of labels from..to: boxes and arrows
MeasuredRowWidth(from, to) ==
  LET labels == FrameworkLabels(rIn.data)
  IN SumSeq([i \in 1..(to - from + 1) |->
               Measure(labels[from + i - 1], AdvanceAt(rIn.env, 24)) + 2 * 28])
     + (to - from) * 36

\* boxes from..to reach outside the content band [176, 1016]
RowOverflows(from, to) ==
  FlowBoxes[from].x < 176 \/ FlowBoxes[to].x + FlowBoxes[to].w > 1016

IsTwoRowCall == IsFlowCall /\ SingleRowWidth > 1016 - 176

\* C24: when the labels do not fit one row, the two rows of ceil(n/2) and
\* floor(n/2) boxes are drawn at their measured widths, whole labels in the
\* label font, each row centred; nothing is corrected, so a row reaches
\* outside the content band exactly when its measured width exceeds the
\* content width - and such label sets exist (n <= 8).
C24_TwoRowsNotWidthAware ==
  IsTwoRowCall =>
    LET labels == FrameworkLabels(rIn.data)
        n == Len(labels)
        first == (n + 1) \div 2
    IN /\ n <= 8
       /\ Len(FlowBoxes) = n
       /\ \A i \in 1..n :
            /\ FlowBoxes[i].w = Measure(labels[i], AdvanceAt(rIn.env, 24)) + 2 * 28
            /\ FlowBoxes[i].h = 64
            /\ FlowTexts[i].text = labels[i]
       /\ FlowBoxes[1].x = 596 - MeasuredRowWidth(1, first) \div 2
       /\ RowOverflows(1, first) <=> MeasuredRowWidth(1, first) > 1016 - 176
       /\ n > first =>
            /\ FlowBoxes[first + 1].x = 596 - MeasuredRowWidth(first + 1, n) \div 2
            /\ RowOverflows(first + 1, n) <=> MeasuredRowWidth(first + 1, n) > 1016 - 176

\* seven labels: the first row of four boxes is 1052 wide and is drawn from
\* x = 70 to x = 1122, outside the content band on both sides
C24_Witness ==
  /\ IsTwoRowCall
  /\ Len(FlowBoxes) = 7
  /\ MeasuredRowWidth(1, 4) > 1016 - 176
  /\ FlowBoxes[1].x < 176
  /\ FlowBoxes[4].x + FlowBoxes[4].w > 1016
  /\ FlowBoxes[4].y = FlowBoxes[1].y

\* the flow diagram was laid out by the single-row branch: every box has its
\* top at cy - boxH / 2
DrawnAsSingleRow ==
  /\ IsFlowCall
  /\ \A i \in 1..Len(FlowBoxes) : FlowBoxes[i].y = DiagramCy(rIn.data) - 64 \div 2

\* C25: in the single-row layout of the flow diagram every box lies within
\* the content band [176, 1016], box i + 1 starts exactly 36 after the end of
\* box i, and the middle of the row is the content centre.
C25_SingleRowInBand ==
  DrawnAsSingleRow =>
    LET n == Len(FlowBoxes)
    IN /\ n = Len(FrameworkLabels(rIn.data))
       /\ \A i \in 1..n :
            /\ 176 <= FlowBoxes[i].x
            /\ FlowBoxes[i].x + FlowBoxes[i].w <= 1016
            /\ FlowBoxes[i].w > 0
       /\ \A i \in 1..(n - 1) :
            FlowBoxes[i + 1].x = FlowBoxes[i].x + FlowBoxes[i].w + 36
       /\ FlowBoxes[1].x + FlowBoxes[n].x + FlowBoxes[n].w = 176 + 1016

\* a single row of six boxes that spans the content band from edge to edge
C25_Witness ==
  /\ DrawnAsSingleRow
  /\ Len(FlowBoxes) = 6
  /\ FlowBoxes[1].x = 176
  /\ FlowBoxes[6].x + FlowBoxes[6].w = 1016

\* a single row of seven boxes with room to spare
C25_WitnessSeven ==
  /\ DrawnAsSingleRow
  /\ Len(FlowBoxes) = 7
  /\ FlowBoxes[1].x > 176

ValidSelection ==
  slides # NoSlides => (0 <= selectedIdx /\ selectedIdx < Len(slides))

\* C26: whenever the editor holds a slide list, selectedIdx is an index of
\* it, whatever was picked, selected, stepped through in the preview, added,
\* removed, moved or reset; a removal selects the slide before the removed
\* one, an insertion selects the inserted slide and a move selects the
\* moved slide.
C26_SelectionValid ==
  [][/\ ValidSelection'
     /\ (slides # NoSlides /\ slides' # NoSlides) =>
          /\ Len(slides') = Len(slides) - 1 =>
               /\ selectedIdx > 0
               /\ selectedIdx' = selectedIdx - 1
               /\ slides'[selectedIdx' + 1] = slides[selectedIdx]
               /\ \A i \in 1..Len(slides') :
                    slides'[i] = slides[IF i <= selectedIdx THEN i ELSE i + 1]
          /\ Len(slides') = Len(slides) + 1 =>
               /\ slides'[selectedIdx' + 1] = NewSlide
               /\ \A i \in 1..Len(slides) :
                    slides[i] = slides'[IF i <= selectedIdx' THEN i ELSE i + 1]
          /\ (Len(slides') = Len(slides) /\ slides' # slides
                /\ selectedIdx' # selectedIdx) =>
               /\ selectedIdx' - selectedIdx \in {-1, 1}
               /\ slides'[selectedIdx' + 1] = slides[selectedIdx + 1]
               /\ slides'[selectedIdx + 1] = slides[selectedIdx' + 1]]_vars

\* the last interior slide was removed and then the new last interior slide
\* too: the selection stepped back twice
C26_Witness ==
  /\ slides # NoSlides
  /\ nEvents = MaxEvents
  /\ \E k \in SequenceKeys :
       /\ Len(slides) = Len(SEQUENCES(k)) - 2
       /\ selectedIdx = Len(slides) - 2
       /\ \A i \in 1..(Len(slides) - 1) :
            slides[i].template = SEQUENCES(k)[i].template
       /\ slides[Len(slides)].template = "cta"

\* the callbacks registered for canvas c whose effect was not cleaned up
LiveThens(c) ==
  {i \in 1..Len(thens) : thens[i].canvas = c /\ ~thens[i].cancelled}

\* what canvas c shows when its current props have been rendered
LatestRender(cv) == RenderCall(cv.props.template, cv.props.data, cv.props.slideNum)

\* C27: a SlideCanvas never paints superseded content.  At most one render
\* per canvas is waiting for the fonts without being cancelled, and it is
\* the one for the current props; an unmounted canvas has none; whenever
\* the surface of a canvas is painted it is painted with the current props;
\* and once no render is waiting the surface shows the current props.
C27_NoSupersededPaint ==
  [][\A c \in CanvasIds :
       /\ Cardinality(LiveThens(c)') <= 1
       /\ \A i \in LiveThens(c)' :
            canvases'[c].mounted /\ thens'[i].props = canvases'[c].props
       /\ (canvases'[c].painted # canvases[c].painted /\ canvases'[c].mounted
             /\ canvases'[c].painted # Blank) =>
            canvases'[c].painted = LatestRender(canvases'[c])
       /\ (canvases'[c].mounted /\ LiveThens(c)' = {}) =>
            canvases'[c].painted = LatestRender(canvases'[c])
       /\ ~canvases'[c].mounted => canvases'[c] = Unmounted]_vars

\* a canvas was unmounted while its render waited for the fonts; the fonts
\* became ready and the render was skipped: nothing was ever painted
C27_Witness ==
  /\ fontsLoadedPromise # 0
  /\ promises[fontsLoadedPromise].state = "resolved"
  /\ thens = <<>>
  /\ exports = <<>> /\ exportLog = <<>>
  /\ \A c \in CanvasIds : canvases[c] = Unmounted
  /\ lastCall = NoCall

\* the props of a canvas changed while its first render waited: the
\* superseded render is cancelled and the one for the new props waits
C27_WitnessSuperseded ==
  \E c \in CanvasIds, i, j \in 1..Len(thens) :
    /\ i < j
    /\ thens[i].canvas = c /\ thens[i].cancelled
    /\ thens[j].canvas = c /\ ~thens[j].cancelled
    /\ thens[j].props = canvases[c].props
    /\ canvases[c].painted = Blank

\* an export is in flight: handleExport was invoked and the exportPDF it
\* starts (or is about to start from its timer) has not settled
ExportInFlight == timers # <<>> \/ exports # <<>>

\* C28: at most one export is in flight at a time: whenever the event loop
\* is free to run a task and an export is in flight, the exporting flag is
\* true and the Export button is disabled, and no second export is pending.
C28_SingleExportInFlight ==
  (TaskReady /\ ExportInFlight) =>
    /\ exporting
    /\ view.slides # NoSlides => ExportDisabled(view)
    /\ Len(timers) + Len(exports) <= 1

\* slide b is slide a with data[key] set and nothing else changed
FieldEdited(a, b) ==
  /\ [b EXCEPT !.data = a.data] = a
  /\ \E key \in DOMAIN b.data :
       /\ DOMAIN b.data = DOMAIN a.data \cup {key}
       /\ \A k \in DOMAIN a.data \ {key} : b.data[k] = a.data[k]

\* slide b is slide a with a template set and its data reset; the lock flag
\* and the note are as before
TemplateChanged(a, b) ==
  /\ [b EXCEPT !.template = a.template, !.data = a.data] = a
  /\ b.data = EmptyData

\* C29: a field edit changes only data[key] of the addressed slide, and a
\* template change sets the addressed slide's template and empties its data,
\* keeping its lock flag and note; the number of slides, their order and
\* every other slide stay as they were.
C29_EditsAreLocal ==
  [][(slides # NoSlides /\ slides' # NoSlides /\ slides' # slides
        /\ Len(slides') = Len(slides) /\ selectedIdx' = selectedIdx) =>
       /\ \A j \in 1..Len(slides) : j # selectedIdx + 1 => slides'[j] = slides[j]
       /\ \/ FieldEdited(slides[selectedIdx + 1], slides'[selectedIdx + 1])
          \/ TemplateChanged(slides[selectedIdx + 1], slides'[selectedIdx + 1])
       /\ UNCHANGED previewMode]_vars

\* the second field of a slide was edited after its first: both are held
C29_Witness ==
  /\ slides # NoSlides
  /\ nEvents = MaxEvents
  /\ Cardinality(DOMAIN slides[selectedIdx + 1].data) = 2
  /\ \A j \in 1..Len(slides) : j # selectedIdx + 1 => slides[j].data = EmptyData

\* a slide was given another template: its data is empty and it has kept
\* its note
C29_WitnessTemplate ==
  /\ slides # NoSlides
  /\ nEvents = MaxEvents
  /\ \E k \in SequenceKeys :
       /\ Len(slides) = Len(SEQUENCES(k))
       /\ slides[selectedIdx + 1].template = "blank"
       /\ SEQUENCES(k)[selectedIdx + 1].template # "blank"
       /\ slides[selectedIdx + 1].note = SEQUENCES(k)[selectedIdx + 1].note
       /\ slides[selectedIdx + 1].data = EmptyData
       /\ \A j \in 1..Len(slides) : slides[j].data = EmptyData

\* the list the i-th moveSlide call left behind
AfterMove(i) == IF i < Len(moves) THEN moves[i + 1].before ELSE slides

\* the i-th call was made on a locked slide or towards the first or the
\* last position
MoveRefused(i) ==
  LET m == moves[i]
  IN \/ IsLocked(m.before[m.idx + 1])
     \/ m.idx + m.dir = 0
     \/ m.idx + m.dir = Len(m.before) - 1

\* b holds the slides of a, each as many times
IsPermutation(a, b) ==
  /\ Len(a) = Len(b)
  /\ \A x \in Range(a) :
       Cardinality({i \in 1..Len(a) : a[i] = x})
         = Cardinality({i \in 1..Len(b) : b[i] = x})

\* C30: moveSlide(idx, dir), dir -1 or +1, changes nothing when the slide is
\* locked or the target is the first or the last position, and otherwise
\* swaps the interior slides idx and idx + dir and nothing else; the list
\* afterwards is a permutation of the list before, of the same length; a
\* move by +1 followed by a move of the same slide by -1 restores the list.
C30_MoveSlideSwaps ==
  \A i \in 1..Len(moves) :
    LET m == moves[i]
        a == m.before
        b == AfterMove(i)
        t == m.idx + m.dir
    IN /\ IsPermutation(a, b)
       /\ MoveRefused(i) => b = a
       /\ ~MoveRefused(i) =>
            /\ 1 <= m.idx /\ m.idx <= Len(a) - 2
            /\ 1 <= t /\ t <= Len(a) - 2
            /\ b[m.idx + 1] = a[t + 1]
            /\ b[t + 1] = a[m.idx + 1]
            /\ \A j \in 1..Len(a) : (j # m.idx + 1 /\ j # t + 1) => b[j] = a[j]
       /\ (i > 1 /\ ~MoveRefused(i - 1) /\ moves[i - 1].dir = 1
             /\ m.dir = -1 /\ m.idx = moves[i - 1].idx + 1) =>
            b = moves[i - 1].before

\* a slide was moved down and up again: the list went through another order
\* and is back at the first
C30_Witness ==
  /\ Len(moves) = 2
  /\ ~MoveRefused(1)
  /\ moves[1].dir = 1 /\ moves[2].dir = -1
  /\ moves[2].idx = moves[1].idx + 1
  /\ moves[2].before # moves[1].before
  /\ slides = moves[1].before

\* a call on the locked cover and a call towards the last position changed
\* nothing
C30_WitnessRefused ==
  /\ Len(moves) = 2
  /\ moves[1].idx = 0
  /\ moves[2].idx = Len(slides) - 2 /\ moves[2].dir = 1
  /\ Len(slides) >= MinSlides
  /\ slides = moves[1].before

====
